---------------------------- MODULE Spec2Model ----------------------------
(***************************************************************************)
(* Model of the estimate extraction and validation pipeline and of the     *)
(* institution resolver of the destiny-engine backend                      *)
(* (src/backend/robust_ai.py, src/backend/main.py).                        *)
(*                                                                         *)
(* Text (aspirations, countries, generative replies) is modelled as TLA+   *)
(* strings, character by character; the regular expressions of the source *)
(* are hand-compiled into recursive matchers over those strings.           *)
(*                                                                         *)
(* Money is held in tenths of a dollar, so that every product the code     *)
(* forms (cap * country multiplier, lifetime * 0.4, lifetime * 0.3) is an  *)
(* integer.  Multipliers and ratios are held in tenths (0.7 is 7).  The    *)
(* rounding of binary floating point is not modelled.  A match score of    *)
(* the resolver is held as a fraction <<numerator, denominator>>.          *)
(*                                                                         *)
(* Spec is the behaviour of the estimate pipeline, UniSpec the behaviour   *)
(* of the institution resolver over a catalog loaded at startup,           *)
(* WealthSpec that of get_career_wealth_estimate, ProbabilitySpec that of  *)
(* get_success_probability and PredictSpec that of the predict_destiny     *)
(* handler; each leaves the state of the others alone.                     *)
(***************************************************************************)
EXTENDS Integers, Sequences, FiniteSets, TLC

VARIABLES
    pc,          \* position: "idle", "primary", "secondary", "tertiary",
                 \*           "done", "raised", "clamped"; in the resolver
                 \*           "assess_ai", "assess_strict", "resolved";
                 \*           "wealth_primary", "wealth_retry",
                 \*           "wealth_done"; "prob_primary", "prob_retry",
                 \*           "prob_done"; "predict_steps", "predict_save",
                 \*           "predict_return"
    aspiration,  \* the aspiration argument of the running call
    country,     \* the country argument of the running call
    calls,       \* number of ai_service.generate_response calls made
    reply1,      \* outcome of the first generate_response call
    reply2,      \* outcome of the second generate_response call
    extracted,   \* (lifetime_nw, ten_year_nw) as handed to validation
    stage,       \* the return statement that produced the result
    result,      \* the pair returned by get_brutal_career_estimate
    inPair,      \* the numeric pair given to a direct validation call
    clamp,       \* results of a direct validation call, once and twice
    logged,      \* the message logged with the return of the estimate
    source,      \* what load_data found in place of university_ranks.csv
    catalog,     \* university_data: the rows loaded at startup
    college,     \* the college_name argument of find_university_tier
    uniReply,    \* outcome of the generate_response call of
                 \* get_ai_university_assessment
    uni,         \* what find_university_tier returns, and by which path
    profile,     \* user_input of the running request, with the tier found
    probability, \* what get_success_probability returns, and by which path
    tasks,       \* the tasks given to asyncio.create_task, in order
    prediction   \* prediction_response of predict_destiny, once built

uniVars == <<source, catalog, college, uniReply, uni>>

mainVars == <<profile, probability, tasks, prediction>>

vars == <<pc, aspiration, country, calls, reply1, reply2, extracted, stage,
          result, inPair, clamp, logged, source, catalog, college, uniReply,
          uni, profile, probability, tasks, prediction>>

-----------------------------------------------------------------------------
(* Characters and strings                                                  *)

Digits == {"0", "1", "2", "3", "4", "5", "6", "7", "8", "9"}

UpperLetters == {"A", "B", "C", "D", "E", "F", "G", "H", "I", "J", "K", "L",
                 "M", "N", "O", "P", "Q", "R", "S", "T", "U", "V", "W", "X",
                 "Y", "Z"}

LowerLetters == {"a", "b", "c", "d", "e", "f", "g", "h", "i", "j", "k", "l",
                 "m", "n", "o", "p", "q", "r", "s", "t", "u", "v", "w", "x",
                 "y", "z"}

CharAt(s, i) == SubSeq(s, i, i)

IsDigit(c) == c \in Digits

\* \s of the re module, over the characters the replies use
IsSpace(c) == c \in {" ", "\n", "\t"}

\* \w of the re module
IsWordChar(c) == c \in Digits \cup UpperLetters \cup LowerLetters \cup {"_"}

DigitVal(c) ==
    CASE c = "0" -> 0 [] c = "1" -> 1 [] c = "2" -> 2 [] c = "3" -> 3
      [] c = "4" -> 4 [] c = "5" -> 5 [] c = "6" -> 6 [] c = "7" -> 7
      [] c = "8" -> 8 [] c = "9" -> 9

DigitChar(d) ==
    CASE d = 0 -> "0" [] d = 1 -> "1" [] d = 2 -> "2" [] d = 3 -> "3"
      [] d = 4 -> "4" [] d = 5 -> "5" [] d = 6 -> "6" [] d = 7 -> "7"
      [] d = 8 -> "8" [] d = 9 -> "9"

LowerChar(c) ==
    CASE c = "A" -> "a" [] c = "B" -> "b" [] c = "C" -> "c" [] c = "D" -> "d"
      [] c = "E" -> "e" [] c = "F" -> "f" [] c = "G" -> "g" [] c = "H" -> "h"
      [] c = "I" -> "i" [] c = "J" -> "j" [] c = "K" -> "k" [] c = "L" -> "l"
      [] c = "M" -> "m" [] c = "N" -> "n" [] c = "O" -> "o" [] c = "P" -> "p"
      [] c = "Q" -> "q" [] c = "R" -> "r" [] c = "S" -> "s" [] c = "T" -> "t"
      [] c = "U" -> "u" [] c = "V" -> "v" [] c = "W" -> "w" [] c = "X" -> "x"
      [] c = "Y" -> "y" [] c = "Z" -> "z" [] OTHER -> c

RECURSIVE Lower(_)
\* str.lower()
Lower(s) == IF s = "" THEN "" ELSE LowerChar(Head(s)) \o Lower(Tail(s))

RECURSIVE LStrip(_)
LStrip(s) == IF s # "" /\ IsSpace(Head(s)) THEN LStrip(Tail(s)) ELSE s

RECURSIVE RStrip(_)
RStrip(s) ==
    IF s # "" /\ IsSpace(CharAt(s, Len(s)))
    THEN RStrip(SubSeq(s, 1, Len(s) - 1))
    ELSE s

\* str.strip()
Strip(s) == RStrip(LStrip(s))

\* keyword in s
Contains(s, kw) ==
    \E i \in 1..(Len(s) - Len(kw) + 1) : SubSeq(s, i, i + Len(kw) - 1) = kw

\* any(keyword in s for keyword in kws)
AnyIn(s, kws) == \E kw \in kws : Contains(s, kw)

-----------------------------------------------------------------------------
(* Money: tenths of a dollar                                               *)

Dollars(n) == n * 10

\* x * (k / 10), for a ratio or multiplier of k tenths
TimesTenths(x, k) == (x \div 10) * k + ((x % 10) * k) \div 10

\* x > y * (k / 10); y is a whole number of dollars wherever the code
\* forms this product, so the product is exact
ExceedsTenths(x, y, k) == x > TimesTenths(y, k)

Max(a, b) == IF a > b THEN a ELSE b

Min(a, b) == IF a < b THEN a ELSE b

\* no pair held
NoPair == <<0, 0>>

NoClamp == [robust1 |-> NoPair, robust2 |-> NoPair,
            main1 |-> NoPair, main2 |-> NoPair]

\* no service call made
NoReply == [kind |-> "none", text |-> ""]

\* generate_response raised an exception
Raised == [kind |-> "raise", text |-> ""]

\* generate_response returned the text s
Text(s) == [kind |-> "text", text |-> s]

-----------------------------------------------------------------------------
(* RobustCareerAnalyzer._intelligent_validation                            *)

\* the mutant: the high-paying group is tested before the professional one
CategoryCapsSoftwareFirst(asp) ==
    LET aspiration_lower == Strip(Lower(asp)) IN
    IF AnyIn(aspiration_lower, {"farm", "agriculture", "labor", "clean",
                                "driver", "security", "retail"})
    THEN <<600000, 120000>>
    ELSE IF AnyIn(aspiration_lower, {"teacher", "nurse", "police", "clerk",
                                     "assistant"})
    THEN <<1200000, 200000>>
    ELSE IF AnyIn(aspiration_lower, {"doctor", "lawyer", "software",
                                     "consultant", "finance"})
    THEN <<5000000, 800000>>
    ELSE IF AnyIn(aspiration_lower, {"engineer", "accountant", "manager",
                                     "analyst", "designer"})
    THEN <<3000000, 500000>>
    ELSE IF AnyIn(aspiration_lower, {"entrepreneur", "business", "startup",
                                     "ceo"})
    THEN <<8000000, 1200000>>
    ELSE <<2500000, 400000>>

\* the mutant: an unknown career gets the caps of the last group
CategoryCapsBusinessDefault(asp) ==
    LET aspiration_lower == Strip(Lower(asp)) IN
    IF AnyIn(aspiration_lower, {"farm", "agriculture", "labor", "clean",
                                "driver", "security", "retail"})
    THEN <<600000, 120000>>
    ELSE IF AnyIn(aspiration_lower, {"teacher", "nurse", "police", "clerk",
                                     "assistant"})
    THEN <<1200000, 200000>>
    ELSE IF AnyIn(aspiration_lower, {"engineer", "accountant", "manager",
                                     "analyst", "designer"})
    THEN <<3000000, 500000>>
    ELSE IF AnyIn(aspiration_lower, {"doctor", "lawyer", "software",
                                     "consultant", "finance"})
    THEN <<5000000, 800000>>
    ELSE <<8000000, 1200000>>

\* the mutant: the caps of the high-paying group have lost a digit
CategoryCapsDigitLost(asp) ==
    LET aspiration_lower == Strip(Lower(asp)) IN
    IF AnyIn(aspiration_lower, {"farm", "agriculture", "labor", "clean",
                                "driver", "security", "retail"})
    THEN <<600000, 120000>>
    ELSE IF AnyIn(aspiration_lower, {"teacher", "nurse", "police", "clerk",
                                     "assistant"})
    THEN <<1200000, 200000>>
    ELSE IF AnyIn(aspiration_lower, {"engineer", "accountant", "manager",
                                     "analyst", "designer"})
    THEN <<3000000, 500000>>
    ELSE IF AnyIn(aspiration_lower, {"doctor", "lawyer", "software",
                                     "consultant", "finance"})
    THEN <<500000, 80000>>
    ELSE IF AnyIn(aspiration_lower, {"entrepreneur", "business", "startup",
                                     "ceo"})
    THEN <<8000000, 1200000>>
    ELSE <<2500000, 400000>>

\* the if/elif chain over the lower-cased, stripped aspiration:
\* (max_lifetime, max_ten_year) in dollars, before the country multiplier
CategoryCaps(asp) ==
    LET aspiration_lower == Strip(Lower(asp)) IN
    IF AnyIn(aspiration_lower, {"farm", "agriculture", "labor", "clean",
                                "driver", "security", "retail"})
    THEN <<600000, 120000>>
    ELSE IF AnyIn(aspiration_lower, {"teacher", "nurse", "police", "clerk",
                                     "assistant"})
    THEN <<1200000, 200000>>
    ELSE IF AnyIn(aspiration_lower, {"engineer", "accountant", "manager",
                                     "analyst", "designer"})
    THEN <<3000000, 500000>>
    ELSE IF AnyIn(aspiration_lower, {"doctor", "lawyer", "software",
                                     "consultant", "finance"})
    THEN <<5000000, 800000>>
    ELSE IF AnyIn(aspiration_lower, {"entrepreneur", "business", "startup",
                                     "ceo"})
    THEN <<8000000, 1200000>>
    ELSE <<2500000, 400000>>

\* country_multipliers.get(country.lower(), 0.5), in tenths
CountryMultiplier(c) ==
    LET k == Lower(c) IN
    CASE k \in {"usa", "united states", "america"} -> 10
      [] k \in {"canada", "australia", "uk", "united kingdom",
                "singapore"} -> 9
      [] k \in {"germany", "france", "japan"} -> 8
      [] k = "india" -> 6
      [] k = "china" -> 5
      [] k \in {"brazil", "mexico"} -> 4
      [] k \in {"nigeria", "bangladesh", "pakistan"} -> 3
      [] OTHER -> 5

\* max_lifetime *= multiplier; max_ten_year *= multiplier
ScaledCaps(asp, c) ==
    <<CategoryCaps(asp)[1] * CountryMultiplier(c),
      CategoryCaps(asp)[2] * CountryMultiplier(c)>>

\* the mutant: only the lifetime value is capped
ApplyCapsLifetimeOnly(l, t, maxL, maxT) == <<IF l > maxL THEN maxL ELSE l, t>>

\* the mutant: the larger of value and cap is kept
ApplyCapsRaising(l, t, maxL, maxT) == <<Max(l, maxL), Max(t, maxT)>>

\* if lifetime_nw > max_lifetime: ...; if ten_year_nw > max_ten_year: ...
ApplyCaps(l, t, maxL, maxT) ==
    <<IF l > maxL THEN maxL ELSE l, IF t > maxT THEN maxT ELSE t>>

\* the mutant: the adjusted value is derived from ten_year_nw itself
RatioAdjustOfTenYear(l, t) ==
    IF ExceedsTenths(t, l, 7) THEN TimesTenths(t, 4) ELSE t

\* the mutant: the relationship between the two values is not enforced
RatioAdjustSkipped(l, t) == t

\* if ten_year_nw > lifetime_nw * 0.7: ten_year_nw = lifetime_nw * 0.4
RatioAdjust(l, t) ==
    IF ExceedsTenths(t, l, 7) THEN TimesTenths(l, 4) ELSE t

\* the mutant: the minimum of the ten-year value is not applied
MinimumValuesNoTenYear(l, t) == <<Max(Dollars(50000), l), t>>

\* lifetime_nw = max(50000, lifetime_nw); ten_year_nw = max(10000, ...)
MinimumValues(l, t) == <<Max(Dollars(50000), l), Max(Dollars(10000), t)>>

IntelligentValidation(asp, c, l, t) ==
    LET caps   == ScaledCaps(asp, c)
        capped == ApplyCaps(l, t, caps[1], caps[2])
        ten    == RatioAdjust(capped[1], capped[2])
    IN  MinimumValues(capped[1], ten)

-----------------------------------------------------------------------------
(* validate_wealth_estimates (main.py)                                     *)

\* career_caps, in insertion order: keyword, lifetime cap, ten-year cap
career_caps ==
    << <<"farmer", 500000, 100000>>,     <<"farming", 500000, 100000>>,
       <<"agriculture", 600000, 120000>>, <<"teacher", 800000, 150000>>,
       <<"teaching", 800000, 150000>>,   <<"retail", 600000, 100000>>,
       <<"cashier", 400000, 80000>>,     <<"waiter", 400000, 80000>>,
       <<"driver", 500000, 100000>>,     <<"security", 500000, 90000>>,
       <<"cleaner", 350000, 70000>>,     <<"cook", 450000, 90000>>,
       <<"nurse", 1200000, 200000>>,     <<"engineer", 2500000, 450000>>,
       <<"accountant", 1500000, 250000>>, <<"manager", 2000000, 350000>>,
       <<"analyst", 1800000, 300000>>,   <<"designer", 1400000, 250000>>,
       <<"marketing", 1600000, 280000>>, <<"sales", 1800000, 300000>>,
       <<"doctor", 4000000, 600000>>,    <<"lawyer", 3500000, 500000>>,
       <<"software", 3000000, 500000>>,  <<"consultant", 3500000, 550000>>,
       <<"finance", 4000000, 600000>>,   <<"investment", 5000000, 800000>>,
       <<"entrepreneur", 10000000, 1000000>> >>

\* the for loop with break: the index of the first keyword of career_caps
\* found in aspiration.lower(), 0 when max_lifetime stays None
MatchingCareer(asp) ==
    LET aspiration_lower == Lower(asp)
        hits == {i \in 1..Len(career_caps) :
                    Contains(aspiration_lower, career_caps[i][1])}
    IN  IF hits = {} THEN 0
        ELSE CHOOSE i \in hits : \A j \in hits : i <= j

\* "Apply caps if found"
ApplyCareerCaps(asp, l, t) ==
    LET i == MatchingCareer(asp) IN
    IF i = 0 THEN <<l, t>>
    ELSE ApplyCaps(l, t, Dollars(career_caps[i][2]), Dollars(career_caps[i][3]))

\* if lifetime_nw > 20000000: lifetime_nw = 20000000
GeneralCeiling(l) == IF l > Dollars(20000000) THEN Dollars(20000000) ELSE l

\* the mutant: the threshold of the check is taken for the new value
WealthRatioAdjustLoose(l, t) ==
    IF ExceedsTenths(t, l, 6) THEN TimesTenths(l, 7) ELSE t

\* if ten_year_nw > lifetime_nw * 0.6: ten_year_nw = lifetime_nw * 0.3
WealthRatioAdjust(l, t) ==
    IF ExceedsTenths(t, l, 6) THEN TimesTenths(l, 3) ELSE t

\* if ten_year_nw < 10000: ...; if lifetime_nw < 50000: ...
WealthMinimums(l, t) ==
    <<IF l < Dollars(50000) THEN Dollars(50000) ELSE l,
      IF t < Dollars(10000) THEN Dollars(10000) ELSE t>>

ValidateWealthEstimates(asp, l, t) ==
    LET capped == ApplyCareerCaps(asp, l, t)
        life   == GeneralCeiling(capped[1])
        ten    == WealthRatioAdjust(life, capped[2])
    IN  WealthMinimums(life, ten)

-----------------------------------------------------------------------------
(* The regular expressions of get_brutal_career_estimate                   *)

ThreeDigitsAt(s, p) ==
    /\ p + 2 <= Len(s)
    /\ IsDigit(CharAt(s, p))
    /\ IsDigit(CharAt(s, p + 1))
    /\ IsDigit(CharAt(s, p + 2))

\* whether a match of the number may end before position p: always, unless
\* the pattern closes with \b, which needs a non-word character (or the end
\* of the text) after the last digit
MayEndAt(s, p, boundary) ==
    \/ ~boundary
    \/ p > Len(s)
    \/ ~IsWordChar(CharAt(s, p))

RECURSIVE GroupsEnd(_, _, _)
\* (?:,?\d{3})* from position p, greedy with backtracking: the position
\* after the match, 0 when no way of matching lets the pattern end
GroupsEnd(s, p, boundary) ==
    LET next == IF p <= Len(s) /\ CharAt(s, p) = "," /\ ThreeDigitsAt(s, p + 1)
                THEN p + 4
                ELSE IF ThreeDigitsAt(s, p) THEN p + 3 ELSE 0
        more == IF next = 0 THEN 0 ELSE GroupsEnd(s, next, boundary)
    IN  IF more # 0 THEN more
        ELSE IF MayEndAt(s, p, boundary) THEN p ELSE 0

\* \d{1,3}(?:,?\d{3})* from position i: three leading digits are tried
\* first, then two, then one; the position after the match, 0 when none
NumberEnd(s, i, boundary) ==
    LET lead(k) == IF /\ i + k - 1 <= Len(s)
                      /\ \A j \in i..(i + k - 1) : IsDigit(CharAt(s, j))
                   THEN GroupsEnd(s, i + k, boundary)
                   ELSE 0
    IN  IF lead(3) # 0 THEN lead(3)
        ELSE IF lead(2) # 0 THEN lead(2)
        ELSE lead(1)

RECURSIVE DigitsValue(_, _)
DigitsValue(str, acc) ==
    IF str = "" THEN acc
    ELSE IF Head(str) = "," THEN DigitsValue(Tail(str), acc)
    ELSE DigitsValue(Tail(str), acc * 10 + DigitVal(Head(str)))

\* float(text.replace(',', '')), in dollars
NumberValue(str) == DigitsValue(str, 0)

RECURSIVE SkipSpaces(_, _)
\* \s*
SkipSpaces(s, p) ==
    IF p <= Len(s) /\ IsSpace(CharAt(s, p)) THEN SkipSpaces(s, p + 1) ELSE p

RECURSIVE SkipSeparators(_, _)
\* [_\s]*
SkipSeparators(s, p) ==
    IF p <= Len(s) /\ (IsSpace(CharAt(s, p)) \/ CharAt(s, p) = "_")
    THEN SkipSeparators(s, p + 1)
    ELSE p

RECURSIVE AfterLabel(_, _, _)
\* the words of a label, joined by [_\s]*, matched at position p of the
\* lower-cased text (re.IGNORECASE): the position after the label, 0 if none
AfterLabel(low, p, words) ==
    LET w == Head(words)
        q == p + Len(w)
    IN  IF q - 1 > Len(low) \/ SubSeq(low, p, q - 1) # w THEN 0
        ELSE IF Len(words) = 1 THEN q
        ELSE AfterLabel(low, SkipSeparators(low, q), Tail(words))

RECURSIVE FirstDigitOnLine(_, _)
\* .*? before a digit: the first digit at or after p with no newline before
FirstDigitOnLine(s, p) ==
    IF p > Len(s) \/ CharAt(s, p) = "\n" THEN 0
    ELSE IF IsDigit(CharAt(s, p)) THEN p
    ELSE FirstDigitOnLine(s, p + 1)

\* \$? : the position after an optional dollar sign at r
SkipDollar(s, r) == IF r <= Len(s) /\ CharAt(s, r) = "$" THEN r + 1 ELSE r

\* the capture group has to start with a digit: d if it does, 0 if not
DigitAt(s, d) == IF d <= Len(s) /\ IsDigit(CharAt(s, d)) THEN d ELSE 0

\* where the captured number starts when the label of a pattern ends before
\* position q (0 when there is no match): after \s* and an optional $ for
\* the labeled patterns, at the first digit later on the line for the .*?
\* patterns
CaptureAfterLabel(low, q, lazy) ==
    IF q = 0 THEN 0
    ELSE IF lazy THEN FirstDigitOnLine(low, q)
    ELSE DigitAt(low, SkipDollar(low, SkipSpaces(low, q)))

\* where the captured number starts when pattern pat matches at position p
CaptureStartAt(low, p, pat) ==
    CaptureAfterLabel(low, AfterLabel(low, p, pat.words), pat.lazy)

RECURSIVE FirstCapture(_, _, _)
\* re.search scans from the left: the capture start of the leftmost match at
\* or after position p, 0 when the pattern matches nowhere
FirstCapture(low, p, pat) ==
    IF p > Len(low) THEN 0
    ELSE IF CaptureStartAt(low, p, pat) # 0 THEN CaptureStartAt(low, p, pat)
    ELSE FirstCapture(low, p + 1, pat)

\* group(1) of a match whose capture starts at d, "" when there is no match
CapturedText(low, d) ==
    IF d = 0 THEN "" ELSE SubSeq(low, d, NumberEnd(low, d, FALSE) - 1)

\* re.search(pattern, response, re.IGNORECASE).group(1), "" when no match
SearchNumber(response, pat) ==
    CapturedText(Lower(response), FirstCapture(Lower(response), 1, pat))

lifetime_patterns ==
    << [lazy |-> FALSE, words |-> <<"lifetime_net_worth:">>],
       [lazy |-> FALSE, words |-> <<"lifetime", "net", "worth:">>],
       [lazy |-> TRUE,  words |-> <<"lifetime">>],
       [lazy |-> TRUE,  words |-> <<"total">>] >>

ten_year_patterns ==
    << [lazy |-> FALSE, words |-> <<"ten_year_net_worth:">>],
       [lazy |-> FALSE, words |-> <<"ten", "year", "net", "worth:">>],
       [lazy |-> TRUE,  words |-> <<"10", "year">>],
       [lazy |-> TRUE,  words |-> <<"ten", "year">>] >>

\* the value None of lifetime_nw and ten_year_nw
None == -1

RECURSIVE FirstPatternValue(_, _)
\* for pattern in patterns: the first pattern that matches gives the value
FirstPatternValue(response, patterns) ==
    IF patterns = <<>> THEN None
    ELSE IF SearchNumber(response, Head(patterns)) # ""
    THEN NumberValue(SearchNumber(response, Head(patterns)))
    ELSE FirstPatternValue(response, Tail(patterns))

RECURSIVE FindAllNumbers(_, _)
\* re.findall(r'\b(\d{1,3}(?:,?\d{3})*)\b', response), as values in dollars
FindAllNumbers(s, i) ==
    IF i > Len(s) THEN <<>>
    ELSE LET e == IF /\ IsDigit(CharAt(s, i))
                     /\ (i = 1 \/ ~IsWordChar(CharAt(s, i - 1)))
                  THEN NumberEnd(s, i, TRUE)
                  ELSE 0
         IN  IF e = 0 THEN FindAllNumbers(s, i + 1)
             ELSE <<NumberValue(SubSeq(s, i, e - 1))>> \o FindAllNumbers(s, e)

RECURSIVE DigitRunEnd(_, _)
DigitRunEnd(s, p) ==
    IF p <= Len(s) /\ IsDigit(CharAt(s, p)) THEN DigitRunEnd(s, p + 1) ELSE p

RECURSIVE FindAllLongNumbers(_, _)
\* re.findall(r'\b(\d{6,})\b', response), as values in dollars
FindAllLongNumbers(s, i) ==
    IF i > Len(s) THEN <<>>
    ELSE LET e == DigitRunEnd(s, i)
             ok == /\ e - i >= 6
                   /\ (i = 1 \/ ~IsWordChar(CharAt(s, i - 1)))
                   /\ (e > Len(s) \/ ~IsWordChar(CharAt(s, e)))
         IN  IF ok THEN <<NumberValue(SubSeq(s, i, e - 1))>>
                        \o FindAllLongNumbers(s, e)
             ELSE FindAllLongNumbers(s, IF e > i THEN e ELSE i + 1)

-----------------------------------------------------------------------------
(* RobustCareerAnalyzer._get_intelligent_fallback                          *)

\* the if/elif chain: (base_lifetime, base_ten_year) in dollars
FallbackBase(asp) ==
    LET aspiration_lower == Strip(Lower(asp)) IN
    IF AnyIn(aspiration_lower, {"ai scientist", "ai engineer",
                                "artificial intelligence", "openai"})
    THEN <<3500000, 500000>>
    ELSE IF AnyIn(aspiration_lower, {"data scientist", "machine learning",
                                     "ml engineer", "ai researcher"})
    THEN <<2800000, 420000>>
    ELSE IF AnyIn(aspiration_lower, {"research scientist",
                                     "computer scientist"})
    THEN <<3000000, 450000>>
    ELSE IF AnyIn(aspiration_lower, {"software", "programmer", "developer",
                                     "tech"})
    THEN <<2200000, 380000>>
    ELSE IF AnyIn(aspiration_lower, {"engineer", "technical"})
    THEN <<2000000, 350000>>
    ELSE IF AnyIn(aspiration_lower, {"doctor", "physician"})
    THEN <<3200000, 500000>>
    ELSE IF AnyIn(aspiration_lower, {"lawyer", "attorney"})
    THEN <<2800000, 450000>>
    ELSE IF AnyIn(aspiration_lower, {"finance", "investment"})
    THEN <<2500000, 420000>>
    ELSE IF AnyIn(aspiration_lower, {"consultant", "consulting"})
    THEN <<2300000, 400000>>
    ELSE IF AnyIn(aspiration_lower, {"teacher", "education"})
    THEN <<900000, 150000>>
    ELSE IF AnyIn(aspiration_lower, {"nurse", "healthcare"})
    THEN <<1100000, 180000>>
    ELSE IF AnyIn(aspiration_lower, {"business", "entrepreneur"})
    THEN <<1500000, 250000>>
    ELSE IF AnyIn(aspiration_lower, {"farm", "agriculture"})
    THEN <<500000, 80000>>
    ELSE <<1200000, 200000>>

\* the fallback's own country_multipliers.get(country.lower(), 0.5), in tenths
FallbackMultiplier(c) ==
    LET k == Lower(c) IN
    CASE k \in {"usa", "united states", "america"} -> 10
      [] k \in {"canada", "australia", "uk", "united kingdom",
                "singapore"} -> 9
      [] k \in {"germany", "france", "japan"} -> 8
      [] k = "india" -> 6
      [] k = "china" -> 5
      [] k \in {"brazil", "mexico"} -> 4
      [] OTHER -> 5

\* (final_lifetime, final_ten_year): base * multiplier, returned as it is
IntelligentFallback(asp, c) ==
    <<FallbackBase(asp)[1] * FallbackMultiplier(c),
      FallbackBase(asp)[2] * FallbackMultiplier(c)>>

-----------------------------------------------------------------------------
(* RobustCareerAnalyzer.get_brutal_career_estimate                         *)

\* what one try block of the function does with the outcome of its service
\* call: it returns a pair, or control falls through to the next method
\* ("propagate" stands for an exception leaving the function)
Returned(st, ex, pair) ==
    [status |-> "return", stage |-> st, extracted |-> ex, pair |-> pair]

FallThrough ==
    [status |-> "fallthrough", stage |-> "none", extracted |-> NoPair,
     pair |-> NoPair]

Propagated ==
    [status |-> "propagate", stage |-> "none", extracted |-> NoPair,
     pair |-> NoPair]

SeqMax(q) == CHOOSE x \in {q[k] : k \in 1..Len(q)} :
                \A k \in 1..Len(q) : q[k] <= x

\* large_numbers.sort(reverse=True); large_numbers[0], large_numbers[1]
TopTwo(q) ==
    LET top  == SeqMax(q)
        at   == CHOOSE k \in 1..Len(q) : q[k] = top
        rest == SubSeq(q, 1, at - 1) \o SubSeq(q, at + 1, Len(q))
    IN  <<top, SeqMax(rest)>>

\* lines 173-188: (lifetime_nw, ten_year_nw) of the pattern loops, in dollars
LabeledFields(response) ==
    <<FirstPatternValue(response, lifetime_patterns),
      FirstPatternValue(response, ten_year_patterns)>>

\* if lifetime_nw and ten_year_nw
BothUsable(f) == f[1] # None /\ f[1] # 0 /\ f[2] # None /\ f[2] # 0

\* lines 200-201: the numbers of the reply that are greater than 10000
LargeNumbers(response) ==
    SelectSeq(FindAllNumbers(response, 1), LAMBDA n : n > 10000)

\* the mutant: the second largest number is taken as it is
LargestOfUncapped(two) == <<Dollars(two[1]), Dollars(two[2])>>

\* lifetime_nw = large_numbers[0]
\* ten_year_nw = min(large_numbers[1], lifetime_nw * 0.4)
LargestOf(two) ==
    <<Dollars(two[1]), Min(Dollars(two[2]), TimesTenths(Dollars(two[1]), 4))>>

\* lines 205-207: the pair taken from the two largest numbers of the reply
LargestPair(response) == LargestOf(TopTwo(LargeNumbers(response)))

\* (lifetime_nw, ten_year_nw) as amounts
InDollars(f) == <<Dollars(f[1]), Dollars(f[2])>>

\* return self._intelligent_validation(aspiration, country, lifetime_nw,
\* ten_year_nw), lines 197, 214 and 254
ReturnValidated(st, asp, c, ex) ==
    Returned(st, ex, IntelligentValidation(asp, c, ex[1], ex[2]))

\* the mutant: the exception of the service call is not caught
OnServiceErrorReraised == Propagated

\* except Exception as e: logger.error(...), lines 216-217 and 256-257
OnServiceError == FallThrough

\* the mutant: the largest-numbers stage is tried before the labeled fields
LargestBeforePatterns(asp, c, response, f) ==
    IF Len(LargeNumbers(response)) >= 2
    THEN ReturnValidated("largest", asp, c, LargestPair(response))
    ELSE IF BothUsable(f)
    THEN ReturnValidated("labeled", asp, c, InDollars(f))
    ELSE FallThrough

PrimaryAnalysisLargestFirst(asp, c, reply) ==
    IF reply.kind = "raise" THEN OnServiceError
    ELSE LargestBeforePatterns(asp, c, reply.text, LabeledFields(reply.text))

\* lines 190-214: what the primary method does once the pattern loops have
\* set f = (lifetime_nw, ten_year_nw)
AfterPatterns(asp, c, response, f) ==
    IF BothUsable(f)
    THEN ReturnValidated("labeled", asp, c, InDollars(f))
    ELSE IF Len(LargeNumbers(response)) >= 2
    THEN ReturnValidated("largest", asp, c, LargestPair(response))
    ELSE FallThrough

\* PRIMARY METHOD, lines 121-217
PrimaryAnalysis(asp, c, reply) ==
    IF reply.kind = "raise" THEN OnServiceError
    ELSE AfterPatterns(asp, c, reply.text, LabeledFields(reply.text))

\* lines 242-247: lifetime_nw, ten_year_nw = numbers[0], numbers[1], swapped
\* if ten_year_nw > lifetime_nw
FirstTwoOrdered(numbers) ==
    IF numbers[2] > numbers[1]
    THEN <<Dollars(numbers[2]), Dollars(numbers[1])>>
    ELSE <<Dollars(numbers[1]), Dollars(numbers[2])>>

\* the mutant: a reply without two numbers is answered with a made-up pair
FromNumbersFabricated(asp, c, numbers) ==
    IF Len(numbers) >= 2
    THEN ReturnValidated("simple", asp, c, FirstTwoOrdered(numbers))
    ELSE ReturnValidated("simple", asp, c,
                         <<Dollars(1000000), Dollars(200000)>>)

\* lines 241-254: if len(numbers) >= 2
FromNumbers(asp, c, numbers) ==
    IF Len(numbers) >= 2
    THEN ReturnValidated("simple", asp, c, FirstTwoOrdered(numbers))
    ELSE FallThrough

\* SECONDARY METHOD, lines 220-257
SecondaryQuery(asp, c, reply) ==
    IF reply.kind = "raise" THEN OnServiceError
    ELSE FromNumbers(asp, c, FindAllLongNumbers(reply.text, 1))

\* TERTIARY METHOD, lines 259-261
TertiaryFallback(asp, c) ==
    Returned("fallback", NoPair, IntelligentFallback(asp, c))

-----------------------------------------------------------------------------
(* find_university_tier (main.py)                                          *)

RECURSIVE WordEnd(_, _)
\* the position after the word that starts at p
WordEnd(s, p) ==
    IF p <= Len(s) /\ ~IsSpace(CharAt(s, p)) THEN WordEnd(s, p + 1) ELSE p

RECURSIVE SplitFrom(_, _)
SplitFrom(s, p) ==
    IF p > Len(s) THEN <<>>
    ELSE IF IsSpace(CharAt(s, p)) THEN SplitFrom(s, p + 1)
    ELSE <<SubSeq(s, p, WordEnd(s, p) - 1)>> \o SplitFrom(s, WordEnd(s, p))

\* str.split(): the whitespace-separated words, in order
Split(s) == SplitFrom(s, 1)

\* set(s.split())
WordSet(s) == {Split(s)[k] : k \in 1..Len(Split(s))}

RECURSIVE Remove(_, _)
\* s.replace(kw, ''): every occurrence of kw taken out, left to right
Remove(s, kw) ==
    IF Len(s) < Len(kw) THEN s
    ELSE IF SubSeq(s, 1, Len(kw)) = kw
    THEN Remove(SubSeq(s, Len(kw) + 1, Len(s)), kw)
    ELSE Head(s) \o Remove(Tail(s), kw)

\* the value of a missing qs_rank cell
NaN == -1

\* int(rank) if pd.notna(rank) else 300
RankOf(row) == IF row.qs_rank = NaN THEN 300 ELSE row.qs_rank

\* row['university_name'].lower().strip()
NormalizedName(row) == Strip(Lower(row.university_name))

\* a score as a fraction <<numerator, denominator>>
ScoreGreater(a, b) == a[1] * b[2] > b[1] * a[2]

\* ['iit', 'nit', 'iisc', 'iim', 'bits']
Abbreviations == <<"iit", "nit", "iisc", "iim", "bits">>

\* the parts left of a name when the keyword is taken out of it
PartsWithout(name, keyword) == WordSet(Strip(Remove(name, keyword)))

\* Condition 4, lines 324-333: some keyword is in both names, and a part of
\* the query longer than two characters is among the parts of the name
AbbreviationMatch(college_clean, uni_name) ==
    \E k \in 1..Len(Abbreviations) :
        /\ Contains(college_clean, Abbreviations[k])
        /\ Contains(uni_name, Abbreviations[k])
        /\ \E part \in PartsWithout(college_clean, Abbreviations[k]) :
              /\ Len(part) > 2
              /\ part \in PartsWithout(uni_name, Abbreviations[k])

\* overlap / max(len(college_words), len(uni_words))
WordScore(college_words, uni_words) ==
    <<Cardinality(college_words \cap uni_words),
      Max(Cardinality(college_words), Cardinality(uni_words))>>

\* Condition 3, lines 317-321: the word score when it is above 0.3
WordOverlap(college_words, uni_words) ==
    IF /\ college_words # {}
       /\ uni_words # {}
       /\ ScoreGreater(WordScore(college_words, uni_words), <<3, 10>>)
    THEN {WordScore(college_words, uni_words)}
    ELSE {}

\* the list matches of one catalog row, lines 306-333
Matches(college_clean, uni_name) ==
    (IF Contains(uni_name, college_clean) THEN {<<9, 10>>} ELSE {})
    \cup (IF Contains(college_clean, uni_name) THEN {<<8, 10>>} ELSE {})
    \cup WordOverlap(WordSet(college_clean), WordSet(uni_name))
    \cup (IF AbbreviationMatch(college_clean, uni_name)
          THEN {<<95, 100>>} ELSE {})

\* max(matches)
MaxScore(matches) ==
    CHOOSE m \in matches : \A n \in matches : ~ScoreGreater(n, m)

\* best_match = None; best_score = 0
NoBest == [match |-> 0, score |-> <<0, 1>>]

\* the mutant: a later row with an equal score replaces the best match
KeepBestLast(best, k, matches) ==
    IF matches # {} /\ ~ScoreGreater(best.score, MaxScore(matches))
    THEN [match |-> k, score |-> MaxScore(matches)]
    ELSE best

\* lines 335-339: if matches: score = max(matches); if score > best_score
KeepBest(best, k, matches) ==
    IF matches # {} /\ ScoreGreater(MaxScore(matches), best.score)
    THEN [match |-> k, score |-> MaxScore(matches)]
    ELSE best

RECURSIVE ScanCatalog(_, _, _, _)
\* for idx, row in university_data.iterrows(), from row k on
ScanCatalog(data, college_clean, k, best) ==
    IF k > Len(data) THEN best
    ELSE ScanCatalog(data, college_clean, k + 1,
             KeepBest(best, k,
                      Matches(college_clean, NormalizedName(data[k]))))

\* the rows of the exact pass, lines 286-288
ExactRows(data, college_clean) ==
    {k \in 1..Len(data) : NormalizedName(data[k]) = college_clean}

\* what find_university_tier does: it returns the tier and rank of a row
\* (method "exact" or "fuzzy", the row, the score), or hands the name to an
\* external assessment
Resolved(method, data, k, score) ==
    [method |-> method, tier |-> data[k].tier, rank |-> RankOf(data[k]),
     match |-> k, score |-> score]

Escalated(assessor) ==
    [method |-> assessor, tier |-> "", rank |-> 0, match |-> 0,
     score |-> <<0, 1>>]

\* the mutant: the scored pass runs before the exact pass is looked at
AfterScanFuzzyFirst(data, college_clean, best) ==
    IF best.match # 0 /\ ScoreGreater(best.score, <<3, 10>>)
    THEN Resolved("fuzzy", data, best.match, best.score)
    ELSE IF ExactRows(data, college_clean) # {}
    THEN Resolved("exact", data,
                  CHOOSE k \in ExactRows(data, college_clean) :
                      \A j \in ExactRows(data, college_clean) : k <= j,
                  <<1, 1>>)
    ELSE Escalated("strict")

\* the mutant: the threshold of the best score is 0.9
AfterScanHighThreshold(data, college_clean, best) ==
    IF ExactRows(data, college_clean) # {}
    THEN Resolved("exact", data,
                  CHOOSE k \in ExactRows(data, college_clean) :
                      \A j \in ExactRows(data, college_clean) : k <= j,
                  <<1, 1>>)
    ELSE IF best.match # 0 /\ ScoreGreater(best.score, <<9, 10>>)
    THEN Resolved("fuzzy", data, best.match, best.score)
    ELSE Escalated("strict")

\* lines 290-354: exact_match.iloc[0] if there is one, else the best match
\* of the scan if its score is above 0.3, else the strict assessment
AfterScan(data, college_clean, best) ==
    IF ExactRows(data, college_clean) # {}
    THEN Resolved("exact", data,
                  CHOOSE k \in ExactRows(data, college_clean) :
                      \A j \in ExactRows(data, college_clean) : k <= j,
                  <<1, 1>>)
    ELSE IF best.match # 0 /\ ScoreGreater(best.score, <<3, 10>>)
    THEN Resolved("fuzzy", data, best.match, best.score)
    ELSE Escalated("strict")

\* the mutant: the test of an empty catalog is left out
FindUniversityTierNoEmptyCheck(data, college_name) ==
    AfterScan(data, Lower(Strip(college_name)),
              ScanCatalog(data, Lower(Strip(college_name)), 1, NoBest))

\* find_university_tier(college_name) over the loaded university_data
FindUniversityTier(data, college_name) ==
    IF data = <<>> THEN Escalated("ai")
    ELSE AfterScan(data, Lower(Strip(college_name)),
                   ScanCatalog(data, Lower(Strip(college_name)), 1, NoBest))

-----------------------------------------------------------------------------
(* External assessment of an institution (main.py, robust_ai.py)           *)

\* where the capture group starts when 'LABEL:\s*(...)' matches at p, the
\* group having to start with a character of first: 0 when it does not
LabelCaptureAt(s, p, label, first) ==
    IF p + Len(label) - 1 > Len(s) \/ SubSeq(s, p, p + Len(label) - 1) # label
    THEN 0
    ELSE IF /\ SkipSpaces(s, p + Len(label)) <= Len(s)
            /\ CharAt(s, SkipSpaces(s, p + Len(label))) \in first
    THEN SkipSpaces(s, p + Len(label))
    ELSE 0

RECURSIVE LabelCapture(_, _, _, _)
\* re.search: the capture start of the leftmost match at or after p, 0 when
\* there is no match
LabelCapture(s, p, label, first) ==
    IF p > Len(s) THEN 0
    ELSE IF LabelCaptureAt(s, p, label, first) # 0
    THEN LabelCaptureAt(s, p, label, first)
    ELSE LabelCapture(s, p + 1, label, first)

RECURSIVE RunEnd(_, _, _)
\* the position after the run of characters of set that starts at p
RunEnd(s, p, set) ==
    IF p <= Len(s) /\ CharAt(s, p) \in set THEN RunEnd(s, p + 1, set) ELSE p

\* group(1) of a match, "" when there is no match (d = 0)
RunFrom(s, d, set) == IF d = 0 THEN "" ELSE SubSeq(s, d, RunEnd(s, d, set) - 1)

\* [A-C][+]? from position d
LetterPlusFrom(s, d) ==
    IF d = 0 THEN ""
    ELSE IF d + 1 <= Len(s) /\ CharAt(s, d + 1) = "+" THEN SubSeq(s, d, d + 1)
    ELSE CharAt(s, d)

\* re.search(r'TIER:\s*([A-C][+]?)', response), main.py line 391
AiTierMatch(response) ==
    LetterPlusFrom(response, LabelCapture(response, 1, "TIER:", {"A", "B", "C"}))

\* re.search(r'RANK:\s*(\d+)', response), main.py line 392
AiRankMatch(response) ==
    RunFrom(response, LabelCapture(response, 1, "RANK:", Digits), Digits)

\* re.search(r'TIER:\s*([A-Z+]+)', content), robust_ai.py line 420
StrictTierMatch(content) ==
    RunFrom(content,
            LabelCapture(content, 1, "TIER:", UpperLetters \cup {"+"}),
            UpperLetters \cup {"+"})

\* re.search(r'SCORE:\s*(\d+)', content), robust_ai.py line 421
StrictScoreMatch(content) ==
    RunFrom(content, LabelCapture(content, 1, "SCORE:", Digits), Digits)

\* what an assessment does: it returns (tier, rank), or an exception leaves
\* the function
Assessed(tier, rank) == [status |-> "return", tier |-> tier, rank |-> rank]

AssessmentRaised == [status |-> "propagate", tier |-> "", rank |-> 0]

\* main.py lines 410-416: the final fallback of get_ai_university_assessment
FinalFallback(college_name) ==
    IF /\ Contains(Lower(college_name), "university of")
       /\ AnyIn(Lower(college_name), {"haldia", "local", "regional"})
    THEN Assessed("C", 1500)
    ELSE Assessed("B", 800)

\* the mutant: the exception is not caught
OnAiAssessmentErrorReraised(college_name) == AssessmentRaised

\* main.py lines 407-408: except Exception, then the final fallback
OnAiAssessmentError(college_name) == FinalFallback(college_name)

\* main.py lines 400-405, 'if tier in content': the name content is not
\* defined in get_ai_university_assessment, so the first test of the loop
\* raises NameError, which line 407 catches
FallbackParsing(college_name) == OnAiAssessmentError(college_name)

\* get_ai_university_assessment(college_name), the reply being the outcome
\* of its generate_response call
AiUniversityAssessment(college_name, reply) ==
    IF reply.kind = "raise" THEN OnAiAssessmentError(college_name)
    ELSE IF AiTierMatch(reply.text) # "" /\ AiRankMatch(reply.text) # ""
    THEN Assessed(AiTierMatch(reply.text), NumberValue(AiRankMatch(reply.text)))
    ELSE FallbackParsing(college_name)

\* robust_ai.py lines 457-492: _get_fallback_university_rating
elite_unis ==
    {"harvard", "mit", "stanford", "yale", "princeton", "oxford", "cambridge",
     "iit bombay", "iit delhi", "iit madras", "iit kanpur", "iit kharagpur"}

top_unis ==
    {"columbia", "brown", "cornell", "dartmouth", "upenn", "berkeley", "ucla",
     "university of chicago", "northwestern", "duke", "johns hopkins",
     "iit roorkee", "iit guwahati", "iisc bangalore", "iim ahmedabad",
     "iim bangalore"}

good_unis ==
    {"university of michigan", "georgia tech", "carnegie mellon",
     "virginia tech", "nit trichy", "nit warangal", "nit surathkal",
     "bits pilani", "dtu", "nsit"}

FallbackUniversityRating(university_name) ==
    IF AnyIn(Strip(Lower(university_name)), elite_unis) THEN Assessed("S+", 92)
    ELSE IF AnyIn(Strip(Lower(university_name)), top_unis)
    THEN Assessed("S", 85)
    ELSE IF AnyIn(Strip(Lower(university_name)), good_unis)
    THEN Assessed("A+", 75)
    ELSE IF AnyIn(Strip(Lower(university_name)),
                  {"institute", "college", "university"})
    THEN Assessed("B", 45)
    ELSE Assessed("C", 35)

\* robust_ai.py lines 444-448: except Exception, then the static rating
OnStrictAssessmentError(university_name) ==
    FallbackUniversityRating(university_name)

\* robust_ai.py lines 428-442: the fallback parsing of the strict assessment
StrictFallbackParsing(content) ==
    IF Contains(content, "S+") \/ Contains(content, "S tier")
    THEN Assessed("S+", 95)
    ELSE IF Contains(content, "S") THEN Assessed("S", 88)
    ELSE IF Contains(content, "A+") THEN Assessed("A+", 78)
    ELSE IF Contains(content, "A") THEN Assessed("A", 68)
    ELSE IF Contains(content, "B+") THEN Assessed("B+", 58)
    ELSE IF Contains(content, "B") THEN Assessed("B", 48)
    ELSE Assessed("C", 35)

\* robust_ai.py lines 414-448: the try block of the strict assessment, the
\* response being the outcome of its line 415
StrictParsed(university_name, response) ==
    IF response.kind = "raise" THEN OnStrictAssessmentError(university_name)
    ELSE IF /\ StrictTierMatch(response.text) # ""
            /\ StrictScoreMatch(response.text) # ""
    THEN Assessed(StrictTierMatch(response.text),
                  Min(NumberValue(StrictScoreMatch(response.text)), 95))
    ELSE StrictFallbackParsing(response.text)

\* robust_ai.py line 415, groq_service.generate_response(prompt, ...): the
\* module binds the service under the name ai_service only (line 10), so
\* groq_service is not defined and the line raises NameError before any
\* request is made
StrictServiceCall == Raised

\* RobustUniversityAnalyzer.get_strict_university_assessment(university_name)
StrictUniversityAssessment(university_name) ==
    StrictParsed(university_name, StrictServiceCall)

-----------------------------------------------------------------------------
(* get_career_wealth_estimate (main.py)                                    *)

\* re.search(r'LIFETIME_NW:\s*(\d+)', response), line 592: group(1), ""
\* when there is no match
WealthLifetimeMatch(response) ==
    RunFrom(response, LabelCapture(response, 1, "LIFETIME_NW:", Digits),
            Digits)

\* re.search(r'TEN_YEAR_NW:\s*(\d+)', response), line 593
WealthTenYearMatch(response) ==
    RunFrom(response, LabelCapture(response, 1, "TEN_YEAR_NW:", Digits),
            Digits)

RECURSIVE FirstDigits(_)
\* re.findall(r'\d+', response)[0]: the first run of digits, "" when the
\* list is empty
FirstDigits(s) ==
    IF s = "" THEN ""
    ELSE IF IsDigit(Head(s)) THEN SubSeq(s, 1, DigitRunEnd(s, 1) - 1)
    ELSE FirstDigits(Tail(s))

\* line 632: return 3000000.0, 600000.0
EmergencyFallback == <<Dollars(3000000), Dollars(600000)>>

\* lines 617-618: except Exception, then the retry with the simple prompt
OnWealthError == FallThrough

\* lines 604-606, re.findall(r'\d+', content): the name content is not
\* defined in get_career_wealth_estimate, so the else branch raises
\* NameError, which line 617 catches
WealthFallbackParsing == OnWealthError

\* lines 547-618: the first try block, the reply being the outcome of the
\* generate_response call of line 587
WealthPrimaryTry(asp, reply) ==
    IF reply.kind = "raise" THEN OnWealthError
    ELSE IF /\ WealthLifetimeMatch(reply.text) # ""
            /\ WealthTenYearMatch(reply.text) # ""
    THEN Returned("labeled",
                  <<Dollars(NumberValue(WealthLifetimeMatch(reply.text))),
                    Dollars(NumberValue(WealthTenYearMatch(reply.text)))>>,
                  ValidateWealthEstimates(asp,
                    Dollars(NumberValue(WealthLifetimeMatch(reply.text))),
                    Dollars(NumberValue(WealthTenYearMatch(reply.text)))))
    ELSE WealthFallbackParsing

\* lines 619-632: the retry inside the except block, the reply being the
\* outcome of the generate_response call of line 622; the first number of
\* the reply is returned with 20% of it, else the emergency pair
WealthRetryTry(reply) ==
    IF reply.kind = "raise" \/ FirstDigits(reply.text) = ""
    THEN Returned("emergency", NoPair, EmergencyFallback)
    ELSE Returned("retry", NoPair,
                  <<Dollars(NumberValue(FirstDigits(reply.text))),
                    NumberValue(FirstDigits(reply.text)) * 2>>)

-----------------------------------------------------------------------------
(* get_success_probability (main.py)                                       *)

\* the characters of [\d.]
FloatChars == Digits \cup {"."}

\* re.search(r'PROBABILITY:\s*([\d.]+)', response), line 677: group(1), ""
\* when there is no match
ProbabilityMatch(response) ==
    RunFrom(response, LabelCapture(response, 1, "PROBABILITY:", FloatChars),
            FloatChars)

\* re.search(r'REASONING:\s*(.+)', response, re.DOTALL), line 678: there is
\* a match when some character follows the label
ReasoningMatch(response) ==
    \E p \in 1..Len(response) :
        /\ p + 10 <= Len(response)
        /\ SubSeq(response, p, p + 9) = "REASONING:"

\* the positions of the points of a text of digits and points
Points(str) == {i \in 1..Len(str) : CharAt(str, i) = "."}

RECURSIVE Pow10(_)
Pow10(n) == IF n = 0 THEN 1 ELSE 10 * Pow10(n - 1)

\* float(str) for a text of digits and points raises ValueError unless the
\* text has at most one point and a digit
IsFloat(str) ==
    /\ Cardinality(Points(str)) <= 1
    /\ Len(str) > Cardinality(Points(str))

\* float(str) as a fraction <<numerator, power of ten>>
FloatValue(str) ==
    IF Points(str) = {} THEN <<NumberValue(str), 1>>
    ELSE <<NumberValue(SubSeq(str, 1, (CHOOSE i \in Points(str) : TRUE) - 1)
                       \o SubSeq(str, (CHOOSE i \in Points(str) : TRUE) + 1,
                                 Len(str))),
           Pow10(Len(str) - (CHOOSE i \in Points(str) : TRUE))>>

\* the mutant: only the upper bound is applied
ClampProbabilityUpperOnly(p) ==
    IF ScoreGreater(p, <<95, 100>>) THEN <<95, 100>> ELSE p

\* max(0.1, min(0.95, probability)), lines 685, 694, 708 and 726
ClampProbability(p) ==
    IF ScoreGreater(p, <<95, 100>>) THEN <<95, 100>>
    ELSE IF ScoreGreater(<<1, 10>>, p) THEN <<1, 10>>
    ELSE p

RECURSIVE FirstZeroPoint(_)
\* re.findall(r'0\.\d+', response)[0], line 704: the leftmost '0.' with a
\* digit after it and the digits that follow, "" when the list is empty
FirstZeroPoint(s) ==
    IF Len(s) < 3 THEN ""
    ELSE IF SubSeq(s, 1, 2) = "0." /\ IsDigit(CharAt(s, 3))
    THEN SubSeq(s, 1, DigitRunEnd(s, 3) - 1)
    ELSE FirstZeroPoint(Tail(s))

\* what one part of the function does: it returns a probability, or control
\* goes on to the next part
ProbabilityReturned(path, value) ==
    [status |-> "return", path |-> path, value |-> value]

ProbabilityFallThrough ==
    [status |-> "fallthrough", path |-> "none", value |-> <<0, 1>>]

\* lines 698-699: except Exception, then the retry with the simple prompt
OnProbabilityError == ProbabilityFallThrough

\* lines 690-691, re.findall(..., content): the name content is not defined
\* in get_success_probability, so the line raises NameError, which line 698
\* catches
ProbabilityFallbackParsing == OnProbabilityError

\* lines 639-699: the first try block, the reply being the outcome of the
\* generate_response call of line 672
ProbabilityPrimaryTry(reply) ==
    IF reply.kind = "raise" THEN OnProbabilityError
    ELSE IF ProbabilityMatch(reply.text) # "" /\ ReasoningMatch(reply.text)
    THEN IF IsFloat(ProbabilityMatch(reply.text))
         THEN ProbabilityReturned("parsed",
                  ClampProbability(FloatValue(ProbabilityMatch(reply.text))))
         ELSE OnProbabilityError
    ELSE ProbabilityFallbackParsing

\* tier_probabilities.get(college_tier, 0.4), in hundredths
TierProbability(college_tier) ==
    CASE college_tier = "S+" -> 85
      [] college_tier = "S"  -> 75
      [] college_tier = "A+" -> 65
      [] college_tier = "A"  -> 55
      [] college_tier = "B+" -> 45
      [] college_tier = "B"  -> 35
      [] college_tier = "C"  -> 25
      [] OTHER               -> 40

\* lines 720-724: the age adjustment, in hundredths
AgeAdjustment(age) == IF age <= 22 THEN 5 ELSE IF age >= 30 THEN -5 ELSE 0

\* lines 712-731: the fallback by college tier and age
TableProbability(college_tier, age) ==
    ProbabilityReturned("table",
        ClampProbability(<<TierProbability(college_tier) + AgeAdjustment(age),
                           100>>))

\* lines 700-731: the retry inside the except block, the reply being the
\* outcome of the generate_response call of line 703, then the table
ProbabilityRetryTry(college_tier, age, reply) ==
    IF reply.kind = "raise" \/ FirstZeroPoint(reply.text) = ""
    THEN TableProbability(college_tier, age)
    ELSE ProbabilityReturned("retry",
             ClampProbability(FloatValue(FirstZeroPoint(reply.text))))

-----------------------------------------------------------------------------
(* predict_destiny (main.py)                                               *)

\* the keys calculate_wealth_percentile tests, from highest to lowest
PercentileKeys ==
    <<"top_0.1", "top_0.5", "top_1", "top_2", "top_5", "top_10", "top_20",
      "top_50">>

\* wealth_data after load_data found no wealth_data.json, or could not
\* read it
NoWealthData == [loaded |-> FALSE, min_nw |-> <<>>, multiplier |-> <<>>]

RECURSIVE FirstPercentile(_, _, _)
\* lines 430-434: the first key from k on whose min_nw the adjusted net
\* worth reaches, 'bottom_50' when there is none
FirstPercentile(wealth, adjusted_nw, k) ==
    IF k > Len(PercentileKeys) THEN "bottom_50"
    ELSE IF adjusted_nw >= Dollars(wealth.min_nw[k]) THEN PercentileKeys[k]
    ELSE FirstPercentile(wealth, adjusted_nw, k + 1)

\* calculate_wealth_percentile(net_worth, country), lines 418-434: the
\* label is stood for by its key; the country multiplier is in tenths, 1.0
\* for a country the data does not list
CalculateWealthPercentile(wealth, net_worth, user_country) ==
    IF ~wealth.loaded THEN "Top 20% - Comfortable"
    ELSE FirstPercentile(wealth,
             TimesTenths(net_worth,
                 IF \E i \in 1..Len(wealth.multiplier) :
                        wealth.multiplier[i][1] = user_country
                 THEN (CHOOSE m \in {wealth.multiplier[i] :
                                        i \in 1..Len(wealth.multiplier)} :
                           m[1] = user_country)[2]
                 ELSE 10),
             1)

\* get_oracle_confidence(probability), lines 436-447
GetOracleConfidence(p) ==
    IF ~ScoreGreater(<<8, 10>>, p)
    THEN "The stars align powerfully in your favor"
    ELSE IF ~ScoreGreater(<<6, 10>>, p)
    THEN "The cosmic forces show strong promise"
    ELSE IF ~ScoreGreater(<<4, 10>>, p)
    THEN "The universe whispers of potential"
    ELSE IF ~ScoreGreater(<<2, 10>>, p)
    THEN "A challenging but possible path lies ahead"
    ELSE "The journey requires extraordinary determination"

\* lines 814-835: prediction_response
PredictionResponse(user, tier, pair, p, reasoning, wealth) ==
    [built |-> TRUE,
     predicted_lifetime_nw |-> pair[1],
     predicted_10_year_nw |-> pair[2],
     rank_band |-> CalculateWealthPercentile(wealth, pair[1], user.country),
     reasoning |-> reasoning,
     college_tier |-> tier,
     probability_score |-> p,
     oracle_confidence |-> GetOracleConfidence(p)]

\* the fields of UserInput, lines 79-83
UserInputFields == {"name", "age", "country", "college", "aspiration"}

\* the attributes of user_input read for user_data_dict, lines 845-850
UserDataAttributes == <<"name", "age", "university", "aspiration", "country">>

\* reading an attribute that is no field of the model raises
\* AttributeError
UserDataDictRaises ==
    \E i \in 1..Len(UserDataAttributes) :
        UserDataAttributes[i] \notin UserInputFields

\* lines 838-872: the try block around the save. The tasks after it: the
\* dictionaries are built first, and when building them raises, line 871
\* catches the exception and asyncio.create_task is not reached
AfterSaveBlock(created, user, built) ==
    IF UserDataDictRaises THEN created
    ELSE Append(created,
                [call |-> "save_prediction",
                 user_input |-> [name |-> user.name, age |-> user.age,
                                 aspiration |-> user.aspiration,
                                 country |-> user.country],
                 prediction_result |-> built])

-----------------------------------------------------------------------------
(* Inputs                                                                  *)

Aspirations ==
    {"farmer", "Software Engineer", "Doctor", "teacher", "ceo", "astronaut",
     "AI Scientist", "Sales Manager", " House CLEANER "}

Countries == {"USA", "India", "nigeria", "Atlantis", "Brazil", "Germany", "UK"}

\* the numeric pairs given to a direct validation call, in dollars
ClampDollars ==
    {-1000, 0, 5000, 20000, 45000, 65000, 100000, 450000, 3000000, 30000000}

\* the longest number written in a generated labeled reply
MaxDigits == 7

RECURSIVE PlainDigits(_)
\* n written as a plain digit string
PlainDigits(n) ==
    IF n < 10 THEN DigitChar(n)
    ELSE PlainDigits(n \div 10) \o DigitChar(n % 10)

RECURSIVE WithCommas(_)
\* n written with comma thousands separators
WithCommas(n) ==
    IF n < 1000 THEN PlainDigits(n)
    ELSE WithCommas(n \div 1000) \o ","
         \o DigitChar((n \div 100) % 10) \o DigitChar((n \div 10) % 10)
         \o DigitChar(n % 10)

Written(n, style) ==
    CASE style = "plain"        -> PlainDigits(n)
      [] style = "commas"       -> WithCommas(n)
      [] style = "dollar"       -> "$" \o PlainDigits(n)
      [] style = "dollarcommas" -> "$" \o WithCommas(n)

Styles == {"plain", "commas", "dollar", "dollarcommas"}

\* the reply in the format the prompt asks for
LabeledReply(n, m, style) ==
    "LIFETIME_NET_WORTH: " \o Written(n, style)
    \o "\nTEN_YEAR_NET_WORTH: " \o Written(m, style)

RECURSIVE LeadingDigits(_, _)
\* the number made of the first k digits of the digit sequence q
LeadingDigits(q, k) ==
    IF k = 0 THEN 0 ELSE LeadingDigits(q, k - 1) * 10 + q[k]

\* a positive integer of k digits, for the lifetime and the ten-year field
LifetimeSample(k) == LeadingDigits(<<2, 5, 4, 3, 1, 8, 7, 6, 9>>, k)

TenYearSample(k) == LeadingDigits(<<4, 3, 1, 8, 7, 6, 2, 5, 9>>, k)

\* outcomes of the first generate_response call
PrimaryOutcomes ==
    {Raised}
    \cup {Text(LabeledReply(LifetimeSample(k), TenYearSample(k), style)) :
             k \in 1..MaxDigits, style \in Styles}
    \cup {Text(s) : s \in
            {"LIFETIME_NET_WORTH: 5,200,000\nTEN_YEAR_NET_WORTH: 900,000",
             "lifetime net worth: $800000\nten year net worth:\n 120000",
             "Lifetime earnings about $1,200,000 and 10 year savings 150000",
             "Total wealth near 95000, ten_year 20000",
             "At age 30 in 2024 you may reach 1500000 then 300000 by 45",
             "LIFETIME_NET_WORTH: unknown, maybe 2500000 or 40,000",
             "LIFETIME_NET_WORTH: 0\nTEN_YEAR_NET_WORTH: 0",
             "Between 900000 and 850000 USD",
             "About 750000 dollars by age 65",
             "I cannot estimate that.",
             "LIFETIME_NET_WORTH: unknown\nTEN_YEAR_NET_WORTH: n/a",
             ""}}

\* outcomes of the second generate_response call
SecondaryOutcomes ==
    {Raised}
    \cup {Text(s) : s \in
            {"Lifetime: 1800000\n10-year: 280000",
             "10-year: 280000, lifetime: 1800000",
             "Lifetime: 1,800,000\n10-year: 280,000",
             "Lifetime (40-year career): 900000",
             "950000USD then 120000USD",
             "no idea",
             ""}}

\* outcomes of the first generate_response call of
\* get_career_wealth_estimate
WealthPrimaryOutcomes ==
    {Raised}
    \cup {Text(s) : s \in
            {"LIFETIME_NW: 400000, TEN_YEAR_NW: 80000",
             "LIFETIME_NW: 2500000\nTEN_YEAR_NW: 2000000",
             "LIFETIME_NW: 2,500,000\nTEN_YEAR_NW: 400,000",
             "LIFETIME_NW: 30000000\nTEN_YEAR_NW: 9000000",
             "LIFETIME_NW: 30000\nTEN_YEAR_NW: 500",
             "LIFETIME_NW: $800000\nTEN_YEAR_NW: $120000",
             "LIFETIME_NW: 800000",
             "Lifetime 900000 and ten-year 150000",
             "lifetime_nw: 700000 ten_year_nw: 90000",
             ""}}

\* outcomes of the generate_response call of its retry
WealthRetryOutcomes ==
    {Raised}
    \cup {Text(s) : s \in
            {"1200000", "About 1,200,000 dollars", "$750000", "5",
             "Over 40 years: 2000000", "no idea", ""}}

\* the rows university_ranks.csv may hold: none, institutions
\* of several countries with a case variant of one name, Indian institutes
Catalogs ==
    { <<>>,
      << [university_name |-> "Massachusetts Institute of Technology",
          tier |-> "S+", qs_rank |-> 1],
         [university_name |-> "Harvard University",
          tier |-> "S+", qs_rank |-> 4],
         [university_name |-> "Stanford University ",
          tier |-> "S+", qs_rank |-> 3],
         [university_name |-> "University of Oxford",
          tier |-> "S", qs_rank |-> NaN],
         [university_name |-> "harvard university",
          tier |-> "A", qs_rank |-> 400],
         [university_name |-> "Harvard Business School",
          tier |-> "A+", qs_rank |-> 50] >>,
      << [university_name |-> "IIT Bombay",
          tier |-> "S+", qs_rank |-> 149],
         [university_name |-> "IIT Delhi",
          tier |-> "S", qs_rank |-> 197],
         [university_name |-> "NIT Trichy",
          tier |-> "A+", qs_rank |-> NaN],
         [university_name |-> "United Nations University",
          tier |-> "B", qs_rank |-> 900],
         [university_name |-> "BITS Pilani",
          tier |-> "A+", qs_rank |-> 800] >> }

\* what load_data may find at data/university_ranks.csv: no file, a file
\* that pd.read_csv cannot read, a file with rows
Sources ==
    {[kind |-> "absent", rows |-> <<>>]}
    \cup {[kind |-> "unreadable", rows |-> c] : c \in Catalogs \ {<<>>}}
    \cup {[kind |-> "file", rows |-> c] : c \in Catalogs}

\* load_data has not run
NoSource == [kind |-> "none", rows |-> <<>>]

\* load_data, lines 126-151: university_data after startup
LoadData(src) ==
    CASE src.kind = "file"       -> src.rows
      [] src.kind = "absent"     -> <<>>
      [] src.kind = "unreadable" -> <<>>

\* the names asked for
Colleges ==
    {"mit", "MIT", " Harvard University ", "harvard", "harvard business",
     "university", "texas institute", "stanford university",
     "University of Oxford", "oxford uk", "iit bombay", "IIT Bombay campus",
     "iit", "nit trichy", "united college", "bits goa",
     "University of Haldia", "cornell tech", "xyz", "   "}

\* the tier enumeration of the prompts
Tiers == {"S+", "S", "A+", "A", "B+", "B", "C"}

\* a reply in the format an assessment prompt asks for: TIER and RANK
\* (main.py lines 378-384), TIER and SCORE (robust_ai.py lines 410-412)
TierReply(tier, field, n) ==
    "TIER: " \o tier \o "\n" \o field \o ": " \o PlainDigits(n)

\* outcomes of the generate_response call of get_ai_university_assessment
UniOutcomes ==
    {Raised}
    \cup {Text(TierReply(t, f, n)) :
             t \in Tiers, f \in {"RANK", "SCORE"}, n \in {60, 1200}}
    \cup {Text(s) : s \in
            {"TIER: unknown\nRANK: n/a",
             "tier: b\nrank: 900",
             "TIER:B+\nRANK:0700",
             "RANK: 900",
             "TIER: B",
             "I do not know this university.",
             "Probably a B+ school",
             "TIER: C+\nRANK: 900",
             ""}}

\* the tiers and ages given to get_success_probability: the tiers of the
\* resolver, one the assessment can return beside them, and none
ProbabilityTiers == Tiers \cup {"C+", ""}

Ages == {16, 22, 23, 29, 30, 80}

\* outcomes of the first generate_response call of get_success_probability
ProbabilityOutcomes ==
    {Raised}
    \cup {Text(s) : s \in
            {"PROBABILITY: 0.78\nREASONING: A strong match.",
             "PROBABILITY: 78\nREASONING: Very likely.",
             "PROBABILITY: 0.05\nREASONING: A hard road.",
             "PROBABILITY: 0.0\nREASONING: No.",
             "PROBABILITY: 1.\nREASONING: Sure.",
             "PROBABILITY: .5\nREASONING: Even.",
             "PROBABILITY: 0.7.5\nREASONING: Odd.",
             "PROBABILITY: ...\nREASONING: Odd.",
             "PROBABILITY: 0.6",
             "PROBABILITY: 0.6\nREASONING:",
             "probability: 0.9\nreasoning: small letters",
             "The chance is 0.4",
             ""}}

\* outcomes of the generate_response call of its retry
ProbabilityRetryOutcomes ==
    {Raised}
    \cup {Text(s) : s \in
            {"0.65", "0.999", "0.0", "10.5", "1.0", ".5", "About 70%", ""}}

\* the requests to /api/predict, as validated by UserInput
Names == {"Asha", "Bo"}

RequestAges == {21, 35}

RequestCountries == {"USA", "India"}

RequestColleges == {"IIT Bombay", "xyz"}

RequestAspirations == {"Farmer", "Software Engineer"}

\* what the steps of predict_destiny hand back to it: (tier, rank) of
\* find_university_tier, the pair of get_brutal_career_estimate, the
\* probability of get_success_probability, the text of
\* get_enhanced_reasoning (the reply stripped, or its own fallback)
FoundTiers == {<<"S+", 149>>, <<"B", 800>>, <<"C", 35>>}

EstimatedPairs ==
    {<<Dollars(600000), Dollars(120000)>>,
     <<Dollars(3000000), Dollars(500000)>>,
     <<Dollars(50000), Dollars(10000)>>}

AssessedProbabilities == {<<1, 10>>, <<78, 100>>, <<95, 100>>}

Reasonings == {"reply", "fallback"}

\* wealth_data after startup: none, or percentile thresholds in dollars
\* with country multipliers in tenths
WealthData ==
    {NoWealthData,
     [loaded |-> TRUE,
      min_nw |-> <<50000000, 10000000, 5000000, 2500000, 1000000, 500000,
                   200000, 50000>>,
      multiplier |-> << <<"India", 5>> >>]}

\* no user_input
NoProfile ==
    [name |-> "", age |-> 0, country |-> "", college |-> "",
     aspiration |-> "", tier |-> "", rank |-> 0]

\* get_success_probability has not returned
NoProbability == [path |-> "none", value |-> <<0, 1>>]

\* predict_destiny has not built a response
NoPrediction == [built |-> FALSE]

\* find_university_tier has not been called
NoLookup ==
    [method |-> "none", tier |-> "", rank |-> 0, match |-> 0,
     score |-> <<0, 1>>]

-----------------------------------------------------------------------------
(* Behaviour                                                               *)

\* no request is running
MainIdle ==
    /\ profile = NoProfile
    /\ probability = NoProbability
    /\ tasks = <<>>
    /\ prediction = NoPrediction

Init ==
    /\ pc = "idle"
    /\ aspiration = ""
    /\ country = ""
    /\ calls = 0
    /\ reply1 = NoReply
    /\ reply2 = NoReply
    /\ extracted = NoPair
    /\ stage = "none"
    /\ result = NoPair
    /\ inPair = NoPair
    /\ clamp = NoClamp
    /\ logged = ""
    /\ source = NoSource
    /\ catalog = <<>>
    /\ college = ""
    /\ uniReply = NoReply
    /\ uni = NoLookup
    /\ MainIdle

\* a direct call of ValidationClamp in both implementations, and a second
\* call of each on its own output
Clamp ==
    /\ pc = "idle"
    /\ \E a \in Aspirations, c \in Countries, l \in ClampDollars,
          t \in ClampDollars :
          \E r1 \in {IntelligentValidation(a, c, Dollars(l), Dollars(t))},
             m1 \in {ValidateWealthEstimates(a, Dollars(l), Dollars(t))} :
              /\ aspiration' = a
              /\ country' = c
              /\ inPair' = <<Dollars(l), Dollars(t)>>
              /\ clamp' = [robust1 |-> r1,
                           robust2 |-> IntelligentValidation(a, c, r1[1], r1[2]),
                           main1 |-> m1,
                           main2 |-> ValidateWealthEstimates(a, m1[1], m1[2])]
    /\ pc' = "clamped"
    /\ UNCHANGED <<calls, reply1, reply2, extracted, stage, result, logged>>
    /\ UNCHANGED uniVars
    /\ UNCHANGED mainVars

\* the caller takes the result; the core keeps no state across calls
Return ==
    /\ pc \in {"clamped", "done"}
    /\ pc' = "idle"
    /\ aspiration' = ""
    /\ country' = ""
    /\ calls' = 0
    /\ reply1' = NoReply
    /\ reply2' = NoReply
    /\ extracted' = NoPair
    /\ stage' = "none"
    /\ result' = NoPair
    /\ inPair' = NoPair
    /\ clamp' = NoClamp
    /\ logged' = ""
    /\ UNCHANGED uniVars
    /\ UNCHANGED mainVars

\* a call of get_brutal_career_estimate(aspiration, country)
Request ==
    /\ pc = "idle"
    /\ \E a \in Aspirations, c \in Countries :
          /\ aspiration' = a
          /\ country' = c
    /\ pc' = "primary"
    /\ UNCHANGED <<calls, reply1, reply2, extracted, stage, result, inPair,
                   clamp, logged>>
    /\ UNCHANGED uniVars
    /\ UNCHANGED mainVars

\* the message logged right before each return statement, lines 196, 213,
\* 253 and 260
SuccessMessage(st) ==
    CASE st = "labeled"  -> "Groq Analysis Complete"
      [] st = "largest"  -> "Fallback Parse Success"
      [] st = "simple"   -> "Simple Groq Success"
      [] st = "fallback" -> "Using enhanced intelligent fallback"

\* the last such message once a try block is left
Logged(o, before) ==
    IF o.status = "return" THEN SuccessMessage(o.stage) ELSE before

\* where control goes after a try block
AfterBlock(o, next) ==
    CASE o.status = "return"      -> "done"
      [] o.status = "fallthrough" -> next
      [] o.status = "propagate"   -> "raised"

\* the first service call and the parsing of its reply
Primary ==
    /\ pc = "primary"
    /\ \E r \in PrimaryOutcomes :
          \E o \in {PrimaryAnalysis(aspiration, country, r)} :
          /\ reply1' = r
          /\ extracted' = o.extracted
          /\ stage' = o.stage
          /\ result' = o.pair
          /\ pc' = AfterBlock(o, "secondary")
          /\ logged' = Logged(o, logged)
    /\ calls' = calls + 1
    /\ UNCHANGED <<aspiration, country, reply2, inPair, clamp>>
    /\ UNCHANGED uniVars
    /\ UNCHANGED mainVars

\* the second service call and the parsing of its reply
Secondary ==
    /\ pc = "secondary"
    /\ \E r \in SecondaryOutcomes :
          \E o \in {SecondaryQuery(aspiration, country, r)} :
          /\ reply2' = r
          /\ extracted' = o.extracted
          /\ stage' = o.stage
          /\ result' = o.pair
          /\ pc' = AfterBlock(o, "tertiary")
          /\ logged' = Logged(o, logged)
    /\ calls' = calls + 1
    /\ UNCHANGED <<aspiration, country, reply1, inPair, clamp>>
    /\ UNCHANGED uniVars
    /\ UNCHANGED mainVars

\* the static fallback table
Tertiary ==
    /\ pc = "tertiary"
    /\ \E o \in {TertiaryFallback(aspiration, country)} :
          /\ extracted' = o.extracted
          /\ stage' = o.stage
          /\ result' = o.pair
          /\ logged' = Logged(o, logged)
    /\ pc' = "done"
    /\ UNCHANGED <<aspiration, country, calls, reply1, reply2, inPair, clamp>>
    /\ UNCHANGED uniVars
    /\ UNCHANGED mainVars

Next ==
    \/ Clamp
    \/ Request
    \/ Primary
    \/ Secondary
    \/ Tertiary
    \/ Return

Spec == Init /\ [][Next]_vars

\* the estimate pipeline at rest
EstimateIdle ==
    /\ aspiration = ""
    /\ country = ""
    /\ calls = 0
    /\ reply1 = NoReply
    /\ reply2 = NoReply
    /\ extracted = NoPair
    /\ stage = "none"
    /\ result = NoPair
    /\ inPair = NoPair
    /\ clamp = NoClamp
    /\ logged = ""

\* after load_data(): university_data holds the rows of the file, or is
\* empty when the file is absent or reading it raised
UniInit ==
    /\ pc = "idle"
    /\ EstimateIdle
    /\ source \in Sources
    /\ catalog = LoadData(source)
    /\ college = ""
    /\ uniReply = NoReply
    /\ uni = NoLookup
    /\ MainIdle

estimateVars == <<aspiration, country, calls, reply1, reply2, extracted,
                  stage, result, inPair, clamp, logged>>

\* where find_university_tier goes on: it has returned, or it calls an
\* external assessment
AfterLookup(o) ==
    CASE o.method \in {"exact", "fuzzy"} -> "resolved"
      [] o.method = "ai"                 -> "assess_ai"
      [] o.method = "strict"             -> "assess_strict"

\* where control is after an external assessment
AfterAssessment(a) == IF a.status = "return" THEN "resolved" ELSE "raised"

\* a call of find_university_tier(college_name), up to its return or its
\* call of an external assessment
Lookup ==
    /\ pc = "idle"
    /\ \E name \in Colleges :
          \E o \in {FindUniversityTier(catalog, name)} :
              /\ college' = name
              /\ uni' = o
              /\ pc' = AfterLookup(o)
    /\ UNCHANGED <<source, catalog, uniReply>>
    /\ UNCHANGED estimateVars
    /\ UNCHANGED mainVars

\* get_ai_university_assessment(college_name), line 277
AssessAi ==
    /\ pc = "assess_ai"
    /\ \E r \in UniOutcomes :
          \E a \in {AiUniversityAssessment(college, r)} :
              /\ uniReply' = r
              /\ uni' = [uni EXCEPT !.tier = a.tier, !.rank = a.rank]
              /\ pc' = AfterAssessment(a)
    /\ UNCHANGED <<source, catalog, college>>
    /\ UNCHANGED estimateVars
    /\ UNCHANGED mainVars

\* RobustUniversityAnalyzer.get_strict_university_assessment(college_name),
\* line 354
AssessStrict ==
    /\ pc = "assess_strict"
    /\ \E a \in {StrictUniversityAssessment(college)} :
          /\ uni' = [uni EXCEPT !.tier = a.tier, !.rank = a.rank]
          /\ pc' = AfterAssessment(a)
    /\ UNCHANGED <<source, catalog, college, uniReply>>
    /\ UNCHANGED estimateVars
    /\ UNCHANGED mainVars

\* the caller takes (tier, rank); the catalog stays as loaded
Resolve ==
    /\ pc = "resolved"
    /\ pc' = "idle"
    /\ college' = ""
    /\ uniReply' = NoReply
    /\ uni' = NoLookup
    /\ UNCHANGED <<source, catalog>>
    /\ UNCHANGED estimateVars
    /\ UNCHANGED mainVars

UniNext ==
    \/ Lookup
    \/ AssessAi
    \/ AssessStrict
    \/ Resolve

UniSpec == UniInit /\ [][UniNext]_vars

\* a call of get_career_wealth_estimate(aspiration, country)
WealthRequest ==
    /\ pc = "idle"
    /\ \E a \in Aspirations, c \in Countries :
          /\ aspiration' = a
          /\ country' = c
    /\ pc' = "wealth_primary"
    /\ UNCHANGED <<calls, reply1, reply2, extracted, stage, result, inPair,
                   clamp, logged>>
    /\ UNCHANGED uniVars
    /\ UNCHANGED mainVars

\* the first try block, lines 547-618
WealthPrimary ==
    /\ pc = "wealth_primary"
    /\ \E r \in WealthPrimaryOutcomes :
          \E o \in {WealthPrimaryTry(aspiration, r)} :
              /\ reply1' = r
              /\ extracted' = o.extracted
              /\ stage' = o.stage
              /\ result' = o.pair
              /\ pc' = CASE o.status = "return"      -> "wealth_done"
                          [] o.status = "fallthrough" -> "wealth_retry"
                          [] o.status = "propagate"   -> "raised"
    /\ calls' = calls + 1
    /\ UNCHANGED <<aspiration, country, reply2, inPair, clamp, logged>>
    /\ UNCHANGED uniVars
    /\ UNCHANGED mainVars

\* the retry and the emergency fallback, lines 619-632
WealthRetry ==
    /\ pc = "wealth_retry"
    /\ \E r \in WealthRetryOutcomes :
          \E o \in {WealthRetryTry(r)} :
              /\ reply2' = r
              /\ stage' = o.stage
              /\ result' = o.pair
    /\ calls' = calls + 1
    /\ pc' = "wealth_done"
    /\ UNCHANGED <<aspiration, country, reply1, extracted, inPair, clamp,
                   logged>>
    /\ UNCHANGED uniVars
    /\ UNCHANGED mainVars

\* the caller takes the pair
WealthReturn ==
    /\ pc = "wealth_done"
    /\ pc' = "idle"
    /\ aspiration' = ""
    /\ country' = ""
    /\ calls' = 0
    /\ reply1' = NoReply
    /\ reply2' = NoReply
    /\ extracted' = NoPair
    /\ stage' = "none"
    /\ result' = NoPair
    /\ UNCHANGED <<inPair, clamp, logged>>
    /\ UNCHANGED uniVars
    /\ UNCHANGED mainVars

WealthNext ==
    \/ WealthRequest
    \/ WealthPrimary
    \/ WealthRetry
    \/ WealthReturn

WealthSpec == Init /\ [][WealthNext]_vars

\* a call of get_success_probability(user_data, college_tier, college_rank)
ProbabilityRequest ==
    /\ pc = "idle"
    /\ \E t \in ProbabilityTiers, a \in Ages :
          profile' = [name |-> "Asha", age |-> a, country |-> "India",
                      college |-> "IIT Bombay",
                      aspiration |-> "Software Engineer",
                      tier |-> t, rank |-> 149]
    /\ pc' = "prob_primary"
    /\ UNCHANGED <<probability, tasks, prediction>>
    /\ UNCHANGED estimateVars
    /\ UNCHANGED uniVars

\* the first try block, lines 639-699
ProbabilityPrimary ==
    /\ pc = "prob_primary"
    /\ \E r \in ProbabilityOutcomes :
          \E o \in {ProbabilityPrimaryTry(r)} :
              /\ reply1' = r
              /\ probability' = [path |-> o.path, value |-> o.value]
              /\ pc' = IF o.status = "return" THEN "prob_done"
                        ELSE "prob_retry"
    /\ calls' = calls + 1
    /\ UNCHANGED <<aspiration, country, reply2, extracted, stage, result,
                   inPair, clamp, logged>>
    /\ UNCHANGED <<profile, tasks, prediction>>
    /\ UNCHANGED uniVars

\* the retry and the fallback by tier and age, lines 700-731
ProbabilityRetry ==
    /\ pc = "prob_retry"
    /\ \E r \in ProbabilityRetryOutcomes :
          \E o \in {ProbabilityRetryTry(profile.tier, profile.age, r)} :
              /\ reply2' = r
              /\ probability' = [path |-> o.path, value |-> o.value]
    /\ calls' = calls + 1
    /\ pc' = "prob_done"
    /\ UNCHANGED <<aspiration, country, reply1, extracted, stage, result,
                   inPair, clamp, logged>>
    /\ UNCHANGED <<profile, tasks, prediction>>
    /\ UNCHANGED uniVars

\* the caller takes (probability, reasoning)
ProbabilityReturn ==
    /\ pc = "prob_done"
    /\ pc' = "idle"
    /\ calls' = 0
    /\ reply1' = NoReply
    /\ reply2' = NoReply
    /\ profile' = NoProfile
    /\ probability' = NoProbability
    /\ UNCHANGED <<aspiration, country, extracted, stage, result, inPair,
                   clamp, logged>>
    /\ UNCHANGED <<tasks, prediction>>
    /\ UNCHANGED uniVars

ProbabilityNext ==
    \/ ProbabilityRequest
    \/ ProbabilityPrimary
    \/ ProbabilityRetry
    \/ ProbabilityReturn

ProbabilitySpec == Init /\ [][ProbabilityNext]_vars

\* a request arrives at predict_destiny(user_input, request)
PredictRequest ==
    /\ pc = "idle"
    /\ \E n \in Names, a \in RequestAges, c \in RequestCountries,
          u \in RequestColleges, w \in RequestAspirations :
          profile' = [name |-> n, age |-> a, country |-> c, college |-> u,
                      aspiration |-> w, tier |-> "", rank |-> 0]
    /\ pc' = "predict_steps"
    /\ UNCHANGED <<probability, tasks, prediction>>
    /\ UNCHANGED estimateVars
    /\ UNCHANGED uniVars

\* lines 788-835: the four steps have returned and prediction_response is
\* built
PredictBuild ==
    /\ pc = "predict_steps"
    /\ \E f \in FoundTiers, e \in EstimatedPairs,
          q \in AssessedProbabilities, t \in Reasonings, w \in WealthData :
          /\ profile' = [profile EXCEPT !.tier = f[1], !.rank = f[2]]
          /\ probability' = [path |-> "given", value |-> q]
          /\ prediction' = PredictionResponse(profile, f[1], e, q, t, w)
    /\ pc' = "predict_save"
    /\ UNCHANGED tasks
    /\ UNCHANGED estimateVars
    /\ UNCHANGED uniVars

\* lines 837-872: the save block
PredictSave ==
    /\ pc = "predict_save"
    /\ tasks' = AfterSaveBlock(tasks, profile, prediction)
    /\ pc' = "predict_return"
    /\ UNCHANGED <<profile, probability, prediction>>
    /\ UNCHANGED estimateVars
    /\ UNCHANGED uniVars

\* line 874: return prediction_response
PredictRespond ==
    /\ pc = "predict_return"
    /\ pc' = "idle"
    /\ profile' = NoProfile
    /\ probability' = NoProbability
    /\ prediction' = NoPrediction
    /\ tasks' = <<>>
    /\ UNCHANGED estimateVars
    /\ UNCHANGED uniVars

PredictNext ==
    \/ PredictRequest
    \/ PredictBuild
    \/ PredictSave
    \/ PredictRespond

PredictSpec == Init /\ [][PredictNext]_vars

-----------------------------------------------------------------------------
(* Properties                                                              *)

\* the category cap table as data: keyword groups in priority order, each
\* with its (lifetime cap, ten-year cap) in dollars
CapTable ==
    << [keywords |-> {"farm", "agriculture", "labor", "clean", "driver",
                      "security", "retail"},
        caps |-> <<600000, 120000>>],
       [keywords |-> {"teacher", "nurse", "police", "clerk", "assistant"},
        caps |-> <<1200000, 200000>>],
       [keywords |-> {"engineer", "accountant", "manager", "analyst",
                      "designer"},
        caps |-> <<3000000, 500000>>],
       [keywords |-> {"doctor", "lawyer", "software", "consultant",
                      "finance"},
        caps |-> <<5000000, 800000>>],
       [keywords |-> {"entrepreneur", "business", "startup", "ceo"},
        caps |-> <<8000000, 1200000>>] >>

DefaultCaps == <<2500000, 400000>>

\* the groups of CapTable with a keyword inside the aspiration
MatchingGroups(asp) ==
    {g \in 1..Len(CapTable) : AnyIn(Lower(asp), CapTable[g].keywords)}

\* first match wins; the default pair when no group matches
FirstMatchCaps(asp) ==
    IF MatchingGroups(asp) = {} THEN DefaultCaps
    ELSE CapTable[CHOOSE g \in MatchingGroups(asp) :
                     \A h \in MatchingGroups(asp) : g <= h].caps

\* the entries of career_caps whose keyword is inside the aspiration
CareerHits(asp) ==
    LET low == Lower(asp) IN
    {i \in 1..Len(career_caps) : Contains(low, career_caps[i][1])}

\* C1: ValidationClamp is idempotent: in both implementations, applying the
\* clamp to its own output (same aspiration and country) changes nothing.
C1_ClampIdempotent ==
    pc = "clamped" =>
        /\ clamp.robust2 = clamp.robust1
        /\ clamp.main2 = clamp.main1

\* C1 witness: a validation call in which both implementations changed the
\* pair they were given, and were then applied again.
C1_Witness ==
    /\ pc = "clamped"
    /\ clamp.robust1 # inPair
    /\ clamp.main1 # inPair
    /\ inPair[2] > inPair[1]
    /\ inPair[1] > Dollars(50000)

\* C2 as stated: in both implementations the returned pair satisfies
\* short_horizon <= long_horizon * 0.6.
C2_RatioSixTenthsBoth ==
    pc = "clamped" =>
        /\ 10 * clamp.robust1[2] <= 6 * clamp.robust1[1]
        /\ 10 * clamp.main1[2] <= 6 * clamp.main1[1]

\* C2 amended: validate_wealth_estimates returns short_horizon <=
\* long_horizon * 0.6, and _intelligent_validation returns short_horizon <=
\* long_horizon * 0.7 (its ratio rule is 0.7 / 0.4, not 0.6 / 0.3).
C2_RatioBound ==
    pc = "clamped" =>
        /\ 10 * clamp.robust1[2] <= 7 * clamp.robust1[1]
        /\ 10 * clamp.main1[2] <= 6 * clamp.main1[1]

\* C2 witness: a pair whose short value exceeded its long value, so that the
\* ratio rule of both implementations recomputed the short value.
C2_Witness ==
    /\ pc = "clamped"
    /\ inPair[2] > inPair[1]
    /\ inPair[1] >= Dollars(50000)
    /\ clamp.robust1[2] = TimesTenths(clamp.robust1[1], 4)
    /\ clamp.main1[2] = TimesTenths(clamp.main1[1], 3)

\* C3: in both implementations the returned pair satisfies
\* short_horizon <= long_horizon, whatever the input pair.
C3_ShortAtMostLong ==
    pc = "clamped" =>
        /\ clamp.robust1[2] <= clamp.robust1[1]
        /\ clamp.main1[2] <= clamp.main1[1]

\* C3 witness: an input whose short value exceeds its long value and whose
\* long value is below the floor, so that the floors are applied.
C3_Witness ==
    /\ pc = "clamped"
    /\ inPair[2] > inPair[1]
    /\ inPair[1] < Dollars(50000)
    /\ inPair[1] > 0

\* C4: the returned pair satisfies long_horizon >= 50000 and short_horizon
\* >= 10000, and the floors never lift a value above the cap that applies
\* to it (the category cap times the country multiplier; in main.py the
\* category cap when a keyword matches, and the 20,000,000 ceiling).
C4_Floors ==
    pc = "clamped" =>
        /\ clamp.robust1[1] >= Dollars(50000)
        /\ clamp.robust1[2] >= Dollars(10000)
        /\ clamp.main1[1] >= Dollars(50000)
        /\ clamp.main1[2] >= Dollars(10000)
        /\ clamp.robust1[1] <= FirstMatchCaps(aspiration)[1]
                                  * CountryMultiplier(country)
        /\ clamp.robust1[2] <= FirstMatchCaps(aspiration)[2]
                                  * CountryMultiplier(country)
        /\ clamp.main1[1] <= Dollars(20000000)
        /\ \A i \in CareerHits(aspiration) :
              (\A j \in CareerHits(aspiration) : i <= j)
              => /\ clamp.main1[1] <= Dollars(career_caps[i][2])
                 /\ clamp.main1[2] <= Dollars(career_caps[i][3])

\* C4 witness: an input pair below both floors, in a low-cap category and a
\* low-multiplier country.
C4_Witness ==
    /\ pc = "clamped"
    /\ aspiration = "farmer"
    /\ country = "nigeria"
    /\ inPair = <<Dollars(20000), Dollars(5000)>>
    /\ clamp.robust1 = <<Dollars(50000), Dollars(10000)>>

\* C5: _intelligent_validation takes the caps of the first keyword group, in
\* priority order, with a keyword inside the lower-cased aspiration
\* ('software engineer' gets the 'engineer' group), multiplies both by the
\* country multiplier, and returns long_horizon <= lifetime cap * multiplier
\* and short_horizon <= ten-year cap * multiplier; an input at or above the
\* lifetime cap comes back as exactly that cap.
C5_FirstMatchCaps ==
    pc = "clamped" =>
        LET capL == FirstMatchCaps(aspiration)[1] * CountryMultiplier(country)
            capT == FirstMatchCaps(aspiration)[2] * CountryMultiplier(country)
        IN  /\ clamp.robust1[1] <= capL
            /\ clamp.robust1[2] <= capT
            /\ inPair[1] >= capL => clamp.robust1[1] = capL
            /\ (aspiration = "Software Engineer" /\ country = "India")
                  => /\ clamp.robust1[1] <= Dollars(1800000)
                     /\ clamp.robust1[2] <= Dollars(300000)

\* C5 witness: 'Software Engineer' in India with a lifetime estimate far
\* above the cap comes back with 3,000,000 * 0.6.
C5_Witness ==
    /\ pc = "clamped"
    /\ aspiration = "Software Engineer"
    /\ country = "India"
    /\ inPair[1] = Dollars(30000000)
    /\ clamp.robust1[1] = Dollars(1800000)

\* C6 as stated: when the aspiration matches no category keyword, both
\* implementations keep the pair within a default moderate cap pair times
\* the country multiplier.
C6_DefaultCapsBoth ==
    pc = "clamped" =>
        /\ MatchingGroups(aspiration) = {}
              => /\ clamp.robust1[1] <= DefaultCaps[1] * CountryMultiplier(country)
                 /\ clamp.robust1[2] <= DefaultCaps[2] * CountryMultiplier(country)
        /\ CareerHits(aspiration) = {}
              => /\ clamp.main1[1] <= DefaultCaps[1] * CountryMultiplier(country)
                 /\ clamp.main1[2] <= DefaultCaps[2] * CountryMultiplier(country)

\* C6 amended: when the aspiration matches no category keyword,
\* _intelligent_validation keeps the pair within the default pair
\* (2,500,000, 400,000) times the country multiplier;
\* validate_wealth_estimates applies no category cap and no multiplier then:
\* its long_horizon is the input limited only by the 20,000,000 ceiling and
\* the 50,000 floor.
C6_DefaultCaps ==
    pc = "clamped" =>
        /\ MatchingGroups(aspiration) = {}
              => /\ clamp.robust1[1] <= DefaultCaps[1] * CountryMultiplier(country)
                 /\ clamp.robust1[2] <= DefaultCaps[2] * CountryMultiplier(country)
        /\ CareerHits(aspiration) = {}
              => clamp.main1[1] =
                    Max(Dollars(50000), Min(inPair[1], Dollars(20000000)))

\* C6 witness: an aspiration outside every keyword list with a lifetime
\* estimate above every cap.
C6_Witness ==
    /\ pc = "clamped"
    /\ aspiration = "astronaut"
    /\ inPair[1] = Dollars(30000000)
    /\ clamp.robust1[1] = DefaultCaps[1] * CountryMultiplier(country)
    /\ clamp.main1[1] = Dollars(20000000)

\* C7 as stated: when every extraction stage fails, the returned pair is
\* the fallback table's scaled base pair passed through ValidationClamp.
C7_FallbackValidated ==
    (pc = "done" /\ stage = "fallback") =>
        LET base == IntelligentFallback(aspiration, country) IN
        result = IntelligentValidation(aspiration, country, base[1], base[2])

\* C8: get_brutal_career_estimate never lets a failure of the generative
\* service escape: whatever its calls raise or return, no exception leaves
\* the function, it moves straight through its methods with at most two
\* service calls (none before the first method, one before the second, two
\* before the fallback), and what it returns is a pair of positive numbers.
C8_NeverPropagates ==
    /\ pc # "raised"
    /\ calls <= 2
    /\ pc = "primary" => calls = 0
    /\ pc = "secondary" => calls = 1
    /\ pc = "tertiary" => calls = 2
    /\ pc = "done" => result[1] > 0 /\ result[2] > 0 /\ stage # "none"

\* C8 witness: both service calls raised and the function still returned.
C8_Witness ==
    /\ pc = "done"
    /\ calls = 2
    /\ reply1.kind = "raise"
    /\ reply2.kind = "raise"
    /\ result[1] > 0

\* C9: the stages are tried in order, a later one only when every earlier
\* one gave no two usable numbers: a reply with both labeled fields is
\* answered from those values alone; the largest-numbers stage is used only
\* without them; the second service call is made only when the first call
\* raised or both stages failed on its reply; the fallback table is used
\* only when the second call also gave no two numbers.
C9_CascadeOrder ==
    LET labeled == reply1.kind = "text" /\ BothUsable(LabeledFields(reply1.text))
        largest == reply1.kind = "text" /\ Len(LargeNumbers(reply1.text)) >= 2
        simple  == reply2.kind = "text"
                   /\ Len(FindAllLongNumbers(reply2.text, 1)) >= 2
    IN  /\ (pc = "done" /\ labeled)
              => /\ stage = "labeled"
                 /\ calls = 1
                 /\ result = IntelligentValidation(aspiration, country,
                        Dollars(LabeledFields(reply1.text)[1]),
                        Dollars(LabeledFields(reply1.text)[2]))
        /\ stage = "largest" => ~labeled /\ largest /\ calls = 1
        /\ (calls = 2 \/ pc \in {"secondary", "tertiary"})
              => ~labeled /\ ~largest
        /\ stage = "simple" => simple
        /\ (stage = "fallback" \/ pc = "tertiary")
              => ~labeled /\ ~largest /\ ~simple /\ calls = 2

\* C9 witness: both replies were text, no stage found two numbers in them,
\* and the fallback table answered.
C9_Witness ==
    /\ pc = "done"
    /\ stage = "fallback"
    /\ reply1.kind = "text"
    /\ reply2.kind = "text"
    /\ reply1.text # ""

\* C10 as stated: for a reply 'LIFETIME_NET_WORTH: n' / 'TEN_YEAR_NET_WORTH:
\* m' with n and m written as plain digit strings of any length or with
\* comma separators, optionally after '$', the labeled stage extracts
\* long_horizon = n and short_horizon = m.
C10_LabeledValues ==
    \A k \in 1..MaxDigits, style \in Styles :
        (/\ pc = "done"
         /\ reply1 = Text(LabeledReply(LifetimeSample(k), TenYearSample(k),
                                       style)))
        => /\ stage = "labeled"
           /\ extracted = <<Dollars(LifetimeSample(k)),
                            Dollars(TenYearSample(k))>>

\* no digit occurs in the text
NoDigits(s) == \A i \in 1..Len(s) : ~IsDigit(CharAt(s, i))

\* C11: when the first reply is text in which no label pattern matches, the
\* largest-numbers stage answers exactly when the reply has two number
\* tokens above 10000; the pair handed to validation is then the largest
\* token and the smaller of the second largest and 0.4 times the largest,
\* whatever smaller tokens the text holds. A reply holding 1500000 and
\* 300000 among an age and a year gives (1500000, 300000).
C11_LargestNumbers ==
    (reply1.kind = "text"
     /\ LabeledFields(reply1.text) = <<None, None>>)
    => LET q   == FindAllNumbers(reply1.text, 1)
           big == {i \in 1..Len(q) : q[i] > 10000}
       IN  /\ Cardinality(big) < 2 => stage # "largest"
           /\ Cardinality(big) >= 2 =>
                 /\ stage = "largest"
                 /\ pc = "done"
                 /\ \E i \in big : \E j \in big \ {i} :
                       /\ \A k \in big : q[k] <= q[i]
                       /\ \A k \in big \ {i} : q[k] <= q[j]
                       /\ extracted[1] = Dollars(q[i])
                       /\ extracted[2] * 10 <= extracted[1] * 4
                       /\ extracted[2] <= Dollars(q[j])
                       /\ \/ extracted[2] = Dollars(q[j])
                          \/ extracted[2] * 10 = extracted[1] * 4
           /\ reply1.text
                 = "At age 30 in 2024 you may reach 1500000 then 300000 by 45"
              => extracted = <<Dollars(1500000), Dollars(300000)>>

\* C11 witness: the reply with an age, a year and two amounts was answered
\* by the largest-numbers stage; so was a reply whose second amount is more
\* than 0.4 times the first.
C11_Witness ==
    /\ pc = "done"
    /\ stage = "largest"
    /\ \/ /\ reply1.text
               = "At age 30 in 2024 you may reach 1500000 then 300000 by 45"
          /\ extracted = <<Dollars(1500000), Dollars(300000)>>
       \/ /\ reply1.text = "Between 900000 and 850000 USD"
          /\ extracted = <<Dollars(900000), Dollars(360000)>>

\* C12: a reply without any digit is an extraction failure and nothing
\* else: no exception leaves the function, neither stage of the first
\* method answers from a digit-free first reply (a second call is made),
\* the second method does not answer from a digit-free second reply, and
\* when both replies are digit-free the returned pair is the fallback
\* table's base pair times the fallback's country multiplier.
C12_NoDigitsNoPair ==
    /\ pc # "raised"
    /\ (reply1.kind = "text" /\ NoDigits(reply1.text))
          => /\ stage \notin {"labeled", "largest"}
             /\ pc \in {"secondary", "tertiary", "done"}
             /\ pc = "done" => calls = 2
    /\ (reply2.kind = "text" /\ NoDigits(reply2.text))
          => /\ stage # "simple"
             /\ pc \in {"tertiary", "done"}
    /\ (/\ pc = "done"
        /\ reply1.kind = "text" /\ NoDigits(reply1.text)
        /\ reply2.kind = "text" /\ NoDigits(reply2.text))
          => /\ stage = "fallback"
             /\ extracted = NoPair
             /\ result[1] = FallbackBase(aspiration)[1]
                                * FallbackMultiplier(country)
             /\ result[2] = FallbackBase(aspiration)[2]
                                * FallbackMultiplier(country)

\* C12 witness: a first reply with both labels and no digit, a second reply
\* without digits, and the fallback table answered.
C12_Witness ==
    /\ pc = "done"
    /\ reply1 = Text("LIFETIME_NET_WORTH: unknown\nTEN_YEAR_NET_WORTH: n/a")
    /\ reply2 = Text("no idea")
    /\ stage = "fallback"

\* C13 as stated: the value get_brutal_career_estimate returns tells which
\* stage produced it: no reply would make another stage return the value
\* that this run returned.
C13_ResultCarriesStage ==
    pc = "done" =>
        \A r \in PrimaryOutcomes :
            \A o \in {PrimaryAnalysis(aspiration, country, r)} :
                (o.status = "return" /\ o.pair = result) => o.stage = stage

\* C13, what the code records: the stage is written to the log only. Every
\* return logs
\* one of four messages, and the message tells which return statement was
\* taken: the pattern return (labeled or keyword patterns alike) when both
\* pattern loops found a non-zero value, the largest-numbers return when
\* they did not and the reply has two large numbers, the simple-query
\* return when the first reply gave nothing and the second has two long
\* numbers, the fallback otherwise.
C13_LogTellsStage ==
    LET labeled == reply1.kind = "text" /\ BothUsable(LabeledFields(reply1.text))
        largest == reply1.kind = "text" /\ Len(LargeNumbers(reply1.text)) >= 2
        simple  == reply2.kind = "text"
                   /\ Len(FindAllLongNumbers(reply2.text, 1)) >= 2
    IN  /\ pc = "done" <=> logged # ""
        /\ logged \in {"", "Groq Analysis Complete", "Fallback Parse Success",
                       "Simple Groq Success",
                       "Using enhanced intelligent fallback"}
        /\ logged = "Groq Analysis Complete" <=> (pc = "done" /\ labeled)
        /\ logged = "Fallback Parse Success"
              <=> (pc = "done" /\ ~labeled /\ largest)
        /\ logged = "Simple Groq Success"
              <=> (pc = "done" /\ ~labeled /\ ~largest /\ simple)
        /\ logged = "Using enhanced intelligent fallback"
              <=> (pc = "done" /\ ~labeled /\ ~largest /\ ~simple)

\* C13 witness: the largest-numbers return was taken and logged as such,
\* with the pair that the labeled return gives for another reply.
C13_Witness ==
    /\ pc = "done"
    /\ aspiration = "farmer"
    /\ country = "USA"
    /\ logged = "Fallback Parse Success"
    /\ result = <<Dollars(600000), Dollars(120000)>>
    /\ PrimaryAnalysis(aspiration, country,
          Text("LIFETIME_NET_WORTH: 5,200,000\nTEN_YEAR_NET_WORTH: 900,000")).pair
         = result

\* C14: for the reply 'LIFETIME_NET_WORTH: 5,200,000 / TEN_YEAR_NET_WORTH:
\* 900,000', aspiration farmer and a country of multiplier 1.0, the labeled
\* stage extracts (5200000, 900000) and validation returns the farmer caps:
\* long_horizon 600000, short_horizon at most 120000 and at most 0.6 times
\* long_horizon.
C14_FarmerScenario ==
    (/\ pc = "done"
     /\ reply1
          = Text("LIFETIME_NET_WORTH: 5,200,000\nTEN_YEAR_NET_WORTH: 900,000")
     /\ aspiration = "farmer"
     /\ country = "USA")
    => /\ stage = "labeled"
       /\ calls = 1
       /\ extracted = <<Dollars(5200000), Dollars(900000)>>
       /\ result[1] = Dollars(600000)
       /\ result[2] <= Dollars(120000)
       /\ result[2] * 10 <= result[1] * 6
       /\ result[2] >= Dollars(10000)

\* C14 witness: the scenario's request returned.
C14_Witness ==
    /\ pc = "done"
    /\ reply1
         = Text("LIFETIME_NET_WORTH: 5,200,000\nTEN_YEAR_NET_WORTH: 900,000")
    /\ aspiration = "farmer"
    /\ country = "USA"
    /\ result = <<Dollars(600000), Dollars(120000)>>

\* the rows whose normalized name equals the normalized query
SameName ==
    {k \in 1..Len(catalog) :
        Strip(Lower(catalog[k].university_name)) = Strip(Lower(college))}

\* the signals of row k for the query, as the resolver's rules state them:
\* 0.9 when the query is within the name, 0.8 when the name is within the
\* query, the share of common words when above 0.3, 0.95 for a shared
\* abbreviation with a common part
Signals(k) ==
    LET q  == Strip(Lower(college))
        n  == Strip(Lower(catalog[k].university_name))
        common == Cardinality(WordSet(q) \cap WordSet(n))
        most   == Max(Cardinality(WordSet(q)), Cardinality(WordSet(n)))
    IN  {m \in {<<9, 10>>} : Contains(n, q)}
        \cup {m \in {<<8, 10>>} : Contains(q, n)}
        \cup {m \in {<<common, most>>} : most > 0 /\ common * 10 > most * 3}
        \cup {m \in {<<95, 100>>} : AbbreviationMatch(q, n)}

\* a is at least b, as fractions
AtLeast(a, b) == a[1] * b[2] >= b[1] * a[2]

\* the rows with a signal
Scored == {k \in 1..Len(catalog) : Signals(k) # {}}

\* C15: when the trimmed, lower-cased query equals the trimmed, lower-cased
\* name of rows of a loaded catalog, find_university_tier returns by the
\* exact pass the tier and rank of the first such row (rank 300 when the
\* row has none), whatever the rows score in the scored pass, and no
\* external assessment is made; it returns by the exact pass in no other
\* case.
C15_ExactPrecedence ==
    (uni.method # "none" /\ catalog # <<>>)
    => /\ uni.method = "exact" <=> SameName # {}
       /\ SameName # {}
            => /\ pc = "resolved"
               /\ uni.match \in SameName
               /\ \A j \in SameName : uni.match <= j
               /\ uni.tier = catalog[uni.match].tier
               /\ uni.rank = IF catalog[uni.match].qs_rank = NaN THEN 300
                             ELSE catalog[uni.match].qs_rank
               /\ uniReply = NoReply

\* C15 witness: ' Harvard University ' was resolved to the row 'Harvard
\* University' by the exact pass, with a case variant of the name of
\* another tier and a row containing the query's first word in the catalog.
C15_Witness ==
    /\ pc = "resolved"
    /\ college = " Harvard University "
    /\ uni.method = "exact"
    /\ uni.match = 2
    /\ uni.tier = "S+"
    /\ uni.rank = 4
    /\ Cardinality(SameName) = 2
    /\ Cardinality(Scored) > 2

\* C16 as stated: with 'Massachusetts Institute of Technology' (S+, rank 1)
\* in the catalog, the query 'mit' is resolved by the scored pass to that
\* row, tier S+, without an external assessment.
C16_MitFuzzy ==
    (/\ uni.method # "none"
     /\ Lower(Strip(college)) = "mit"
     /\ \E k \in 1..Len(catalog) :
           catalog[k].university_name = "Massachusetts Institute of Technology")
    => /\ uni.method = "fuzzy"
       /\ catalog[uni.match].university_name
            = "Massachusetts Institute of Technology"
       /\ uni.tier = "S+"
       /\ pc = "resolved"

\* C17: when the scored pass returns a row, the score of that row is the
\* largest of its signals, no row of the catalog has a larger signal, and
\* every row before it has only smaller signals (of several rows with the
\* highest score the first is returned).
C17_BestScoreFirstWins ==
    uni.method = "fuzzy"
    => /\ uni.match \in Scored
       /\ \E m \in Signals(uni.match) :
             AtLeast(m, uni.score) /\ AtLeast(uni.score, m)
       /\ \A k \in Scored : \A m \in Signals(k) : AtLeast(uni.score, m)
       /\ \A k \in Scored : k < uni.match =>
             \A m \in Signals(k) : ~AtLeast(m, uni.score)
       /\ uni.tier = catalog[uni.match].tier

\* C17 witness: 'harvard' scores 0.9 on three rows and the first of them
\* was returned.
C17_Witness ==
    /\ pc = "resolved"
    /\ uni.method = "fuzzy"
    /\ college = "harvard"
    /\ uni.match = 2
    /\ uni.score = <<9, 10>>
    /\ Cardinality({k \in Scored : <<9, 10>> \in Signals(k)}) = 3

\* C18: over a loaded catalog, find_university_tier returns a row by the
\* scored pass exactly when no name equals the query and some row has a
\* signal above 0.3; in every other case without an equal name it returns
\* no row and hands the name to the external assessment. Rows that share
\* with the query only 0.3 or less of their words give no match.
C18_FuzzyThreshold ==
    (uni.method # "none" /\ catalog # <<>>)
    => /\ uni.method = "fuzzy"
            <=> /\ SameName = {}
                /\ \E k \in Scored : \E m \in Signals(k) :
                      ~AtLeast(<<3, 10>>, m)
       /\ uni.method \in {"exact", "fuzzy", "strict"}
       /\ uni.method = "strict"
            => /\ uni.match = 0
               /\ pc \in {"assess_strict", "resolved"}
       /\ uni.method = "fuzzy" => pc = "resolved" /\ uniReply = NoReply
       /\ (\A k \in 1..Len(catalog) :
              /\ ~Contains(Strip(Lower(catalog[k].university_name)),
                           Strip(Lower(college)))
              /\ ~Contains(Strip(Lower(college)),
                           Strip(Lower(catalog[k].university_name)))
              /\ ~AbbreviationMatch(Strip(Lower(college)),
                       Strip(Lower(catalog[k].university_name))))
           /\ (\A k \in 1..Len(catalog) :
                 Cardinality(WordSet(Strip(Lower(college)))
                     \cap WordSet(Strip(Lower(catalog[k].university_name))))
                   * 10
                 <= 3 * Max(Cardinality(WordSet(Strip(Lower(college)))),
                        Cardinality(WordSet(
                            Strip(Lower(catalog[k].university_name))))))
          => uni.method = "strict"

\* C18 witness: 'texas institute' shares one word of four with a row and
\* nothing else with any row, and the name went to the external
\* assessment.
C18_Witness ==
    /\ college = "texas institute"
    /\ uni.method = "strict"
    /\ pc = "resolved"
    /\ Len(catalog) = 6
    /\ Scored = {}
    /\ Cardinality(WordSet(college)
           \cap WordSet(Strip(Lower(catalog[1].university_name)))) = 1

\* C19: no exception leaves an external assessment: whatever the service
\* call of get_ai_university_assessment raised or returned, and for every
\* name given to get_strict_university_assessment, the assessment returns
\* a tier and a positive number.
C19_AssessmentNeverRaises ==
    /\ pc \in {"idle", "assess_ai", "assess_strict", "resolved"}
    /\ pc = "resolved" => uni.tier # "" /\ uni.rank > 0
    /\ (pc = "resolved" /\ uni.method = "ai") => uniReply # NoReply
    /\ pc = "assess_ai" => catalog = <<>> /\ uni.method = "ai"
    /\ pc = "assess_strict" => uni.method = "strict"

\* C19 witness: the service call raised and
\* get_ai_university_assessment returned its default.
C19_Witness ==
    /\ pc = "resolved"
    /\ uni.method = "ai"
    /\ uniReply = Raised
    /\ uni.tier \in {"B", "C"}
    /\ uni.rank \in {800, 1500}

\* C20 as stated: when the reply to get_ai_university_assessment is
\* 'TIER: t' and 'RANK: n' with t any tier of the enumeration, the
\* assessment returns tier t and rank n.
C20_TierAndRankReturned ==
    \A t \in Tiers, n \in {60, 1200} :
        (/\ pc = "resolved"
         /\ uni.method = "ai"
         /\ uniReply = Text(TierReply(t, "RANK", n)))
        => uni.tier = t /\ uni.rank = n

\* C21 as stated: every tier an external assessment returns is one of S+,
\* S, A+, A, B+, B, C, whatever the reply of the service.
C21_TierInEnumeration ==
    (pc = "resolved" /\ uni.method \in {"ai", "strict"}) => uni.tier \in Tiers

\* C22: when university_ranks.csv is absent or reading it raised, startup
\* ends with an empty catalog; and with an empty catalog every call of
\* find_university_tier goes to get_ai_university_assessment, matches no
\* row, raises nothing and returns a tier and a positive rank.
C22_MissingCatalogDegrades ==
    /\ source.kind \in {"absent", "unreadable"} => catalog = <<>>
    /\ (catalog = <<>> /\ uni.method # "none")
         => uni.method = "ai" /\ uni.match = 0
    /\ catalog = <<>> => pc \in {"idle", "assess_ai", "resolved"}
    /\ (catalog = <<>> /\ pc = "resolved")
         => uni.tier # "" /\ uni.rank > 0 /\ uniReply # NoReply

\* C22 witness: reading the file raised although it holds 'Harvard
\* University'; the call for ' Harvard University ' went to
\* get_ai_university_assessment, whose service call raised, and returned
\* the default.
C22_Witness ==
    /\ source.kind = "unreadable"
    /\ \E k \in 1..Len(source.rows) :
          source.rows[k].university_name = "Harvard University"
    /\ college = " Harvard University "
    /\ pc = "resolved"
    /\ uni.method = "ai"
    /\ uniReply = Raised
    /\ uni.tier = "B"
    /\ uni.rank = 800

\* C24 as stated: a row gets the score 0.95 only when one of iit, nit,
\* iisc, iim, bits is a word of the query and a word of the row's name, and
\* another word of the query is a word of the name too.
C24_BoostNeedsAcronymToken ==
    uni.method # "none"
    => \A k \in 1..Len(catalog) :
          <<95, 100>> \in Matches(Strip(Lower(college)),
                                  Strip(Lower(catalog[k].university_name)))
          => \E i \in 1..Len(Abbreviations) :
                /\ Abbreviations[i] \in WordSet(Strip(Lower(college)))
                /\ Abbreviations[i]
                     \in WordSet(Strip(Lower(catalog[k].university_name)))
                /\ (WordSet(Strip(Lower(college)))
                       \cap WordSet(Strip(Lower(catalog[k].university_name))))
                    \ {Abbreviations[i]} # {}

\* C28 as stated: over a loaded catalog a query that is empty after
\* trimming matches no row and goes to the external assessment.
C28_BlankNeverResolved ==
    (uni.method # "none" /\ catalog # <<>> /\ Strip(college) = "")
    => uni.method = "strict" /\ uni.match = 0

\* an input pair above every cap: what validation returns for it is the cap
\* it applies
AboveAllCaps == <<Dollars(30000000), Dollars(30000000)>>

\* the aspirations _intelligent_validation takes for manual, service or
\* government careers (the first two groups of its chain), and for
\* high-paying professional or business careers (the last two)
RobustLow  == {a \in Aspirations : MatchingGroups(a) # {}
                  /\ \E g \in MatchingGroups(a) :
                        g <= 2 /\ \A h \in MatchingGroups(a) : g <= h}
RobustHigh == {a \in Aspirations : MatchingGroups(a) # {}
                  /\ \A h \in MatchingGroups(a) : h >= 4}

\* the aspirations whose first keyword of career_caps is listed under
\* "Low-income careers" (entries 1 to 12), under "High-income careers"
\* (entries 21 to 27)
MainLow  == {a \in Aspirations : CareerHits(a) # {}
                /\ \E i \in CareerHits(a) : i <= 12}
MainHigh == {a \in Aspirations : CareerHits(a) # {}
                /\ \A i \in CareerHits(a) : i >= 21}

\* C23: for every country, the lifetime and ten-year caps that validation
\* applies to an aspiration it takes for a high-earning career are at least
\* the caps it applies, for the same country, to every aspiration it takes
\* for a low-earning career; in both implementations.
C23_MonotonicCaps ==
    (pc = "clamped" /\ inPair = AboveAllCaps)
    => /\ aspiration \in RobustHigh
            => \A a \in RobustLow : \A i \in 1..2 :
                  clamp.robust1[i]
                    >= IntelligentValidation(a, country, AboveAllCaps[1],
                                             AboveAllCaps[2])[i]
       /\ aspiration \in MainHigh
            => \A a \in MainLow : \A i \in 1..2 :
                  clamp.main1[i]
                    >= ValidateWealthEstimates(a, AboveAllCaps[1],
                                               AboveAllCaps[2])[i]

\* C23 witness: for a doctor in Nigeria the caps applied were (1500000,
\* 240000) and (4000000, 600000), with farmer, teacher and cleaner among
\* the low-earning aspirations.
C23_Witness ==
    /\ pc = "clamped"
    /\ inPair = AboveAllCaps
    /\ aspiration = "Doctor"
    /\ country = "nigeria"
    /\ aspiration \in RobustHigh \cap MainHigh
    /\ {"farmer", "teacher", " House CLEANER "} \subseteq RobustLow \cap MainLow
    /\ clamp.robust1 = <<Dollars(1500000), Dollars(240000)>>
    /\ clamp.main1 = <<Dollars(4000000), Dollars(600000)>>

\* C26: validation returns a pair unchanged when the pair is within the
\* caps of its aspiration (and country), within the ratio bound of the
\* implementation and at or above both floors; and the lifetime value
\* returned is never above the larger of the input and 50000.
C26_ClampFrame ==
    pc = "clamped"
    => /\ (/\ inPair[1] <= FirstMatchCaps(aspiration)[1]
                            * CountryMultiplier(country)
           /\ inPair[2] <= FirstMatchCaps(aspiration)[2]
                            * CountryMultiplier(country)
           /\ ~ExceedsTenths(inPair[2], inPair[1], 7)
           /\ inPair[1] >= Dollars(50000)
           /\ inPair[2] >= Dollars(10000))
          => clamp.robust1 = inPair
       /\ (/\ \A i \in CareerHits(aspiration) :
                 (\A j \in CareerHits(aspiration) : i <= j)
                 => /\ inPair[1] <= Dollars(career_caps[i][2])
                    /\ inPair[2] <= Dollars(career_caps[i][3])
           /\ inPair[1] <= Dollars(20000000)
           /\ ~ExceedsTenths(inPair[2], inPair[1], 6)
           /\ inPair[1] >= Dollars(50000)
           /\ inPair[2] >= Dollars(10000))
          => clamp.main1 = inPair
       /\ clamp.robust1[1] <= Max(inPair[1], Dollars(50000))
       /\ clamp.main1[1] <= Max(inPair[1], Dollars(50000))

\* C26 witness: (450000, 100000) for a farmer in the USA is within the caps
\* (600000, 120000) and (500000, 100000) and came back unchanged from both
\* implementations.
C26_Witness ==
    /\ pc = "clamped"
    /\ aspiration = "farmer"
    /\ country = "USA"
    /\ inPair = <<Dollars(450000), Dollars(100000)>>
    /\ clamp.robust1 = inPair
    /\ clamp.main1 = inPair

\* C27 as stated: for the country of a call, the multiplier of
\* _get_intelligent_fallback equals the multiplier of
\* _intelligent_validation, is above 0 and at most 1, is the same for any
\* spelling in capitals, and is 0.5 for a country in neither table.
C27_OneCountryMultiplier ==
    pc \in {"clamped", "done"}
    => /\ FallbackMultiplier(country) = CountryMultiplier(country)
       /\ CountryMultiplier(country) \in 1..10
       /\ CountryMultiplier(Lower(country)) = CountryMultiplier(country)
       /\ FallbackMultiplier(Lower(country)) = FallbackMultiplier(country)

\* C25 as stated: get_career_wealth_estimate raises nothing, and the pair it
\* returns has a lifetime value of at least 50000, a ten-year value of at
\* least 10000 and a ten-year value of at most 0.6 of the lifetime value,
\* on every path.
C25_WealthEstimateValid ==
    /\ pc # "raised"
    /\ pc = "wealth_done"
         => /\ result[1] >= Dollars(50000)
            /\ result[2] >= Dollars(10000)
            /\ ~ExceedsTenths(result[2], result[1], 6)

\* C29: get_success_probability raises nothing and the probability it
\* returns is at least 0.1 and at most 0.95, whether it comes from the
\* PROBABILITY field, from the retry with the simple prompt or from the
\* table by tier and age, for every outcome of the service calls, every
\* tier and every age; the table gives the tier's value (0.4 for a tier
\* not in it), 0.05 more up to age 22 and 0.05 less from age 30.
C29_ProbabilityInRange ==
    /\ pc \in {"idle", "prob_primary", "prob_retry", "prob_done"}
    /\ pc = "prob_done"
         => /\ probability.path \in {"parsed", "retry", "table"}
            /\ AtLeast(probability.value, <<1, 10>>)
            /\ AtLeast(<<95, 100>>, probability.value)
            /\ probability.path = "parsed" <=> reply2 = NoReply
            /\ probability.path = "table"
                 => \E base \in {25, 35, 40, 45, 55, 65, 75, 85} :
                       /\ profile.tier \in Tiers
                            => base = TierProbability(profile.tier)
                       /\ profile.tier \notin Tiers => base = 40
                       /\ probability.value[2] = 100
                       /\ probability.value[1]
                            = base + (IF profile.age <= 22 THEN 5
                                      ELSE IF profile.age >= 30 THEN -5
                                      ELSE 0)

\* C29 witness: the reply 'PROBABILITY: 0.05' with a reasoning was parsed
\* and 0.1 was returned.
C29_Witness ==
    /\ pc = "prob_done"
    /\ reply1 = Text("PROBABILITY: 0.05\nREASONING: A hard road.")
    /\ probability.path = "parsed"
    /\ probability.value = <<1, 10>>

\* C30 as stated: when predict_destiny is about to return the response it
\* has built, exactly one save_prediction task has been created for the
\* request, carrying the user input and the prediction.
C30_OneSaveScheduled ==
    pc = "predict_return"
    => /\ Len(tasks) = 1
       /\ tasks[1].call = "save_prediction"
       /\ tasks[1].user_input.name = profile.name
       /\ tasks[1].prediction_result = prediction


=============================================================================
